---------------------------- MODULE Spec2Model ----------------------------
(***************************************************************************)
(* A model of the data-access core of the "oil" service: the filter DSL,   *)
(* the generic repository, the Redis cache wrapper and the cache-aside     *)
(* user service, together with the auth service that writes the same       *)
(* users table, the JWT service and the rate-limit middleware.             *)
(*                                                                         *)
(* Eight specifications share the variables:                               *)
(*   Spec       the user service and the auth service running requests     *)
(*              concurrently against one users table and one cache, with   *)
(*              their detached goroutines (cache saves, invalidations);    *)
(*   SpecRepo   the generic repository called directly with filters;       *)
(*   SpecCache  the cache wrapper called directly with typed values, a     *)
(*              Clear running command by command beside the other calls;   *)
(*   SpecFilter package dto: the filter DSL compiling single filters and   *)
(*              groups, and QueryParams read from a request;               *)
(*   SpecShared the helpers of package shared (cache keys, page counts);   *)
(*   SpecColumns the mapping of an entity struct to its columns;           *)
(*   SpecJwt    the JWT service called concurrently over the cache, each   *)
(*              cache command of a call a step of its own;                 *)
(*   SpecLimit  the rate-limit middleware running concurrent requests.     *)
(***************************************************************************)
EXTENDS Integers, Sequences, FiniteSets, Bags, TLC

VARIABLES
    table,      \* the users table: a set of rows
    cache,      \* the Redis store: a function from present keys to their bytes
    reqs,       \* the requests and calls in flight, a bag
    tasks,      \* Spec: the detached goroutines still running, a bag
    nextId,     \* Spec, SpecJwt: the number of uuids handed out so far
    hist,       \* what has happened so far (faults, expiries, log, saved values,
                \* tokens issued, requests forwarded)
    last        \* the last call to return and what it returned

vars == <<table, cache, reqs, tasks, nextId, hist, last>>

---------------------------------------------------------------------------
(* Bounds of the model.                                                    *)

\* Rows the users table may ever hold (uuids handed out, initial rows included).
MaxIds == 2
\* Service requests one behaviour may start.
MaxReqs == 2
\* Pages a listing query may ask for.
MaxPage == 2
\* The longest slice a filter value holds.
MaxLen == 3
\* The most children a group holds.
MaxWidth == 2
\* The largest total and the largest limit a page count is computed for.
MaxTotal == 5
\* The most fields an entity struct declares.
MaxFields == 2
\* The most calls that generate a token pair.
MaxPairs == 3
\* The configured App.RateLimiter.MaxRequests, and the most requests the clients
\* send within one window.
MaxRequests == 2
MaxCalls == 4
\* SCAN commands one Clear sends before a reply ends the iteration.
MaxScans == 2
\* Clear calls under way at once when the cache wrapper is called directly.
MaxClears == 1
\* Calls of the JWT service under way at once.
MaxJwtCalls == 2
\* Calls of the JWT service that write to the store, in all.
MaxJwtOps == 3
\* Cached entries that reach their TTL while the requests run.
MaxExpiries == 1

---------------------------------------------------------------------------
(* Go values: the dynamic type travels with the value, as in `any`.        *)

GoStr(s) == [t |-> "string", s |-> s]
GoInt(n) == [t |-> "int", n |-> n]
GoNil == [t |-> "nil"]
GoSlice(es) == [t |-> "slice", e |-> es]
GoChan == [t |-> "chan"]

RECURSIVE JoinStr(_, _)
\* strings.Join
JoinStr(ss, sep) ==
    IF Len(ss) = 0 THEN ""
    ELSE IF Len(ss) = 1 THEN ss[1]
    ELSE ss[1] \o sep \o JoinStr(Tail(ss), sep)

RECURSIVE FmtS(_)
\* fmt's %s verb applied to a value held in an `any`.
FmtS(v) ==
    CASE v.t = "string" -> v.s
      [] v.t = "int" -> "%!s(int=" \o ToString(v.n) \o ")"
      [] v.t = "nil" -> "%!s(<nil>)"
      [] v.t = "slice" ->
            "[" \o JoinStr([i \in 1..Len(v.e) |-> FmtS(v.e[i])], " ") \o "]"
      [] OTHER -> "%!s(" \o v.t \o ")"

\* A Go map as a function; maps.Copy(dst, src) overwrites dst's entries.
EmptyMap == <<>>
MapsCopy(dst, src) == src @@ dst
MapOf(k, v) == [x \in {k} |-> v]

---------------------------------------------------------------------------
(* The filter DSL (shared/dto/filter.go).                                   *)

FilterOperatorEq == "eq"
FilterOperatorLike == "like"
FilterOperatorIn == "in"
FilterOperatorNotEq == "not_eq"
FilterOperatorLessEq == "less_eq"
FilterOperatorGreaterEq == "greater_eq"
FilterPlainQuery == "plan"
FilterIsNotNull == "is_not_null"
FilterIsNull == "is_null"
FilterGroupOperatorAnd == "AND"
FilterGroupOperatorOr == "OR"

KnownOperators ==
    {FilterOperatorEq, FilterOperatorLike, FilterOperatorIn, FilterOperatorNotEq,
     FilterOperatorLessEq, FilterOperatorGreaterEq, FilterPlainQuery,
     FilterIsNotNull, FilterIsNull}

\* dto.Filter and dto.FilterGroup values; an element of Filters that is neither
\* (a *Filter, a string, ...) is MkOther.
MkFilter(argName, field, value, operator, tbl) ==
    [kind |-> "filter", ArgName |-> argName, Field |-> field, Value |-> value,
     Operator |-> operator, Table |-> tbl]
MkGroup(filters, operator) ==
    [kind |-> "group", Filters |-> filters, Operator |-> operator]
MkOther == [kind |-> "other"]

\* The column text and the argument name of a filter.
FilterColumn(f) == IF f.Table # "" THEN f.Table \o "." \o f.Field ELSE f.Field
FilterArgName(f) == IF f.ArgName = "" THEN f.Field ELSE f.ArgName

\* A compile whose IN list numbers its placeholders from 1.
FilterWhereInFromOne(f) ==
    LET column == FilterColumn(f)
        argName == FilterArgName(f)
        n == Len(f.Value.e)
        name(i) == argName \o "_" \o ToString(i)
    IN  IF f.Operator = FilterOperatorIn /\ f.Value.t = "slice"
        THEN [where |-> column \o " IN ("
                          \o JoinStr([i \in 1..n |-> ":" \o name(i)], ", ") \o ") ",
              args |-> [k \in {name(i) : i \in 1..n} |->
                           f.Value.e[CHOOSE i \in 1..n : name(i) = k]],
              panic |-> FALSE]
        ELSE [where |-> "", args |-> EmptyMap, panic |-> f.Operator = FilterOperatorIn]

\* Filter.GetWhereClause: the fragment, the named arguments, and whether the call
\* panicked (reflect.ValueOf(nil).Type() panics on the zero Value).
FilterWhere(f) ==
    LET column == FilterColumn(f)
        argName == FilterArgName(f)
        res(w, a) == [where |-> w, args |-> a, panic |-> FALSE]
    IN  CASE f.Operator = FilterOperatorEq ->
                res(column \o " = :" \o argName, MapOf(argName, f.Value))
          [] f.Operator = FilterOperatorLike ->
                res("LOWER(" \o column \o ") LIKE LOWER(:" \o argName \o ") ",
                    MapOf(argName, GoStr("%" \o FmtS(f.Value) \o "%")))
          [] f.Operator = FilterOperatorIn ->
                IF f.Value.t = "nil"
                THEN [where |-> "", args |-> EmptyMap, panic |-> TRUE]
                ELSE IF f.Value.t = "slice"
                THEN LET n == Len(f.Value.e)
                         name(i) == argName \o "_" \o ToString(i - 1)
                     IN  res(column \o " IN ("
                               \o JoinStr([i \in 1..n |-> ":" \o name(i)], ", ")
                               \o ") ",
                             [k \in {name(i) : i \in 1..n} |->
                                 f.Value.e[CHOOSE i \in 1..n : name(i) = k]])
                ELSE res(column \o " IN (" \o FmtS(f.Value) \o ") ", EmptyMap)
          [] f.Operator = FilterOperatorNotEq ->
                res(column \o " != :" \o argName, MapOf(argName, f.Value))
          [] f.Operator = FilterOperatorLessEq ->
                res(column \o " <= :" \o argName, MapOf(argName, f.Value))
          [] f.Operator = FilterOperatorGreaterEq ->
                res(column \o " >= :" \o argName, MapOf(argName, f.Value))
          [] f.Operator = FilterPlainQuery ->
                res("(" \o (IF f.Value.t = "string" THEN f.Value.s ELSE "") \o ")",
                    EmptyMap)
          [] f.Operator = FilterIsNotNull -> res(column \o " IS NOT NULL", EmptyMap)
          [] f.Operator = FilterIsNull -> res(column \o " IS NULL", EmptyMap)
          [] OTHER -> res("", EmptyMap)

RECURSIVE GroupWhereBare(_)
\* A group compile that leaves the parentheses out.
GroupWhereBare(g) ==
    LET compiled == [i \in 1..Len(g.Filters) |->
                        IF g.Filters[i].kind = "filter" THEN FilterWhere(g.Filters[i])
                        ELSE IF g.Filters[i].kind = "group" THEN GroupWhereBare(g.Filters[i])
                        ELSE [where |-> "", args |-> EmptyMap, panic |-> FALSE]]
        taken == SelectSeq([i \in 1..Len(g.Filters) |-> i],
                           LAMBDA i : g.Filters[i].kind \in {"filter", "group"})
        RECURSIVE merged(_)
        merged(k) == IF k = 0 THEN EmptyMap
                     ELSE MapsCopy(merged(k - 1), compiled[taken[k]].args)
    IN  IF \E k \in 1..Len(taken) : compiled[taken[k]].panic
        THEN [where |-> "", args |-> EmptyMap, panic |-> TRUE]
        ELSE [where |-> JoinStr([k \in 1..Len(taken) |-> compiled[taken[k]].where],
                                " " \o g.Operator \o " "),
              args |-> merged(Len(taken)), panic |-> FALSE]

RECURSIVE GroupWhere(_)
\* FilterGroup.GetWhereClause: children compiled in list order, joined by the
\* group's operator inside parentheses; no compiled child gives "".
GroupWhere(g) ==
    LET compiled == [i \in 1..Len(g.Filters) |->
                        IF g.Filters[i].kind = "filter" THEN FilterWhere(g.Filters[i])
                        ELSE IF g.Filters[i].kind = "group" THEN GroupWhere(g.Filters[i])
                        ELSE [where |-> "", args |-> EmptyMap, panic |-> FALSE]]
        taken == SelectSeq([i \in 1..Len(g.Filters) |-> i],
                           LAMBDA i : g.Filters[i].kind \in {"filter", "group"})
        RECURSIVE merged(_)
        merged(k) == IF k = 0 THEN EmptyMap
                     ELSE MapsCopy(merged(k - 1), compiled[taken[k]].args)
        panicked == \E k \in 1..Len(taken) : compiled[taken[k]].panic
    IN  IF panicked THEN [where |-> "", args |-> EmptyMap, panic |-> TRUE]
        ELSE IF Len(taken) = 0
        THEN [where |-> "", args |-> merged(0), panic |-> FALSE]
        ELSE [where |-> "(" \o JoinStr([k \in 1..Len(taken) |-> compiled[taken[k]].where],
                                       " " \o g.Operator \o " ") \o ")",
              args |-> merged(Len(taken)), panic |-> FALSE]

---------------------------------------------------------------------------
(* The users table and what the database does with a compiled statement.    *)

TableName == "users"
FieldID == "id"
FieldEmail == "email"
FieldPassword == "password"
FieldLevel == "level"
FieldModifiedBy == "modified_by"
FieldCreatedAt == "created_at"
FieldActive == "active"

\* The columns of model.User kept by the model (the other timestamps and the
\* optional profile columns are left out).  created_at is the moment the row
\* was inserted, kept as the text of a clock that ticks once per row; the
\* struct field carries no db tag, so no statement of the repository names the
\* column except the ORDER BY of a listing.  active holds "true" or "false".
Columns ==
    {FieldID, FieldEmail, FieldPassword, FieldLevel, FieldActive, FieldModifiedBy,
     FieldCreatedAt}

\* The constraints of the users table: id is the primary key, email is UNIQUE.
UniqueKeys(tbl) ==
    \A r1, r2 \in tbl :
        r1 # r2 => r1[FieldID] # r2[FieldID] /\ r1[FieldEmail] # r2[FieldEmail]

\* The zero value of model.User.
ZeroUser == [c \in Columns |-> ""]

\* strings.Contains, for LIKE '%sub%'.
Contains(str, sub) ==
    \E i \in 1..(Len(str) - Len(sub) + 1) : SubSeq(str, i, i + Len(sub) - 1) = sub

\* The byte order of the characters the model's strings are made of.
Alphabet == ".0123456789@_abcdefghijklmnopqrstuvwxyz"
CharRank(c) ==
    IF \E i \in 1..Len(Alphabet) : SubSeq(Alphabet, i, i) = c
    THEN CHOOSE i \in 1..Len(Alphabet) : SubSeq(Alphabet, i, i) = c
    ELSE 0

RECURSIVE StrLE(_, _)
\* a <= b in byte order, as the database compares two text values.
StrLE(a, b) ==
    IF Len(a) = 0 THEN TRUE
    ELSE IF Len(b) = 0 THEN FALSE
    ELSE LET x == CharRank(SubSeq(a, 1, 1))
             y == CharRank(SubSeq(b, 1, 1))
         IN  IF x # y THEN x < y
             ELSE StrLE(SubSeq(a, 2, Len(a)), SubSeq(b, 2, Len(b)))

\* The text the driver binds for an argument; NULL binds no text.
ArgText(v) == IF v.t = "string" THEN v.s ELSE IF v.t = "int" THEN ToString(v.n) ELSE ""

RECURSIVE SqlValid(_, _)
\* Whether the database accepts the fragment a filter tree compiles to: every
\* fragment is non-empty SQL over columns of the table, every placeholder is bound.
SqlValid(node, args) ==
    IF node.kind = "group"
    THEN LET taken == SelectSeq(node.Filters, LAMBDA x : x.kind \in {"filter", "group"})
         IN  /\ Len(taken) > 0
             /\ Len(taken) > 1 =>
                   node.Operator \in {FilterGroupOperatorAnd, FilterGroupOperatorOr}
             /\ \A i \in 1..Len(taken) : SqlValid(taken[i], args)
    ELSE /\ node.Operator \in KnownOperators
         /\ node.Operator = FilterPlainQuery =>
               node.Value.t = "string" /\ node.Value.s \in {"TRUE", "FALSE"}
         /\ node.Operator # FilterPlainQuery =>
               node.Field \in Columns /\ node.Table \in {"", TableName}
         /\ node.Operator = FilterOperatorIn =>
               node.Value.t = "slice" /\ Len(node.Value.e) > 0
         /\ node.Operator \in {FilterOperatorEq, FilterOperatorNotEq, FilterOperatorLike,
                               FilterOperatorLessEq, FilterOperatorGreaterEq} =>
               FilterArgName(node) \in DOMAIN args

RECURSIVE SqlMatch(_, _, _)
\* Whether a row satisfies the compiled fragment with the bound arguments: each
\* placeholder reads the argument map by name.
SqlMatch(node, row, args) ==
    IF node.kind = "group"
    THEN LET taken == SelectSeq(node.Filters, LAMBDA x : x.kind \in {"filter", "group"})
         IN  IF node.Operator = FilterGroupOperatorOr
             THEN \E i \in 1..Len(taken) : SqlMatch(taken[i], row, args)
             ELSE \A i \in 1..Len(taken) : SqlMatch(taken[i], row, args)
    ELSE LET arg == args[FilterArgName(node)]
             n == Len(node.Value.e)
             name(i) == FilterArgName(node) \o "_" \o ToString(i - 1)
         IN  CASE node.Operator = FilterOperatorEq ->
                     arg.t # "nil" /\ row[node.Field] = ArgText(arg)
               [] node.Operator = FilterOperatorNotEq ->
                     arg.t # "nil" /\ row[node.Field] # ArgText(arg)
               [] node.Operator = FilterOperatorLike ->
                     LET pat == ArgText(arg)
                     IN  Contains(row[node.Field], SubSeq(pat, 2, Len(pat) - 1))
               [] node.Operator = FilterOperatorIn ->
                     \E i \in 1..n :
                         /\ name(i) \in DOMAIN args
                         /\ args[name(i)].t # "nil"
                         /\ row[node.Field] = ArgText(args[name(i)])
               [] node.Operator = FilterOperatorLessEq ->
                     arg.t # "nil" /\ StrLE(row[node.Field], ArgText(arg))
               [] node.Operator = FilterOperatorGreaterEq ->
                     arg.t # "nil" /\ StrLE(ArgText(arg), row[node.Field])
               [] node.Operator = FilterPlainQuery -> node.Value.s = "TRUE"
               [] node.Operator = FilterIsNotNull -> TRUE
               [] node.Operator = FilterIsNull -> FALSE

---------------------------------------------------------------------------
(* The generic repository (shared/repository), bound to the users table.    *)
(* Every operation takes the table and whether the database fails (`fault`) *)
(* and returns what the caller gets, the table afterwards, the handle the   *)
(* statement ran on ("none" when no statement was sent) and whether the     *)
(* statement carried a WHERE clause.                                        *)

ErrNil == "nil"
ErrRequiredFilter == "required filter"
ErrPrepare == "failed to prepare statement"
ErrExec == "failed to execute statement"
ErrPanic == "panic"

\* Repository.BuildWhereClause
BuildWhereClause(filter) ==
    LET clause(c) ==
            IF c.where = ""
            THEN [where |-> "", args |-> EmptyMap, panic |-> c.panic]
            ELSE [where |-> " WHERE " \o c.where \o " ", args |-> c.args, panic |-> FALSE]
    IN  clause(GroupWhere(filter))

\* The rows a statement with this WHERE clause ranges over.
Selected(tbl, filter, w) ==
    IF w.where = "" THEN tbl ELSE {r \in tbl : SqlMatch(filter, r, w.args)}

\* Whether the database rejects the statement text.
Rejected(filter, w) == w.where # "" /\ ~SqlValid(filter, w.args)

RepoResult(err, val, tbl, handle, where) ==
    [err |-> err, val |-> val, table |-> tbl, handle |-> handle, where |-> where]

\* Repository.Exist
RepoExist(tbl, filter, fault) ==
    LET w == BuildWhereClause(filter)
    IN  IF w.panic THEN RepoResult(ErrPanic, FALSE, tbl, "none", "")
        ELSE IF w.where = "" THEN RepoResult(ErrRequiredFilter, FALSE, tbl, "none", "")
        ELSE IF Rejected(filter, w) THEN RepoResult(ErrPrepare, FALSE, tbl, "read", w.where)
        ELSE IF fault THEN RepoResult(ErrExec, FALSE, tbl, "read", w.where)
        ELSE RepoResult(ErrNil, Selected(tbl, filter, w) # {}, tbl, "read", w.where)

\* A Get that hands sql.ErrNoRows to its caller.
RepoGetNoRowsError(tbl, filter, fault) ==
    LET w == BuildWhereClause(filter)
    IN  IF Rejected(filter, w) THEN {RepoResult(ErrPrepare, ZeroUser, tbl, "read", w.where)}
        ELSE IF fault \/ Selected(tbl, filter, w) = {}
        THEN {RepoResult(ErrExec, ZeroUser, tbl, "read", w.where)}
        ELSE {RepoResult(ErrNil, r, tbl, "read", w.where) : r \in Selected(tbl, filter, w)}

\* Repository.Get: the possible results; without ORDER BY the database may hand
\* back any of the matching rows first, and no row is sql.ErrNoRows.
RepoGet(tbl, filter, fault) ==
    LET w == BuildWhereClause(filter)
    IN  IF w.panic THEN {RepoResult(ErrPanic, ZeroUser, tbl, "none", "")}
        ELSE IF Rejected(filter, w) THEN {RepoResult(ErrPrepare, ZeroUser, tbl, "read", w.where)}
        ELSE IF fault THEN {RepoResult(ErrExec, ZeroUser, tbl, "read", w.where)}
        ELSE IF Selected(tbl, filter, w) = {}
        THEN {RepoResult(ErrNil, ZeroUser, tbl, "read", w.where)}
        ELSE {RepoResult(ErrNil, r, tbl, "read", w.where) : r \in Selected(tbl, filter, w)}

\* Repository.Count
RepoCount(tbl, filter, fault) ==
    LET w == BuildWhereClause(filter)
    IN  IF w.panic THEN RepoResult(ErrPanic, 0, tbl, "none", "")
        ELSE IF Rejected(filter, w) THEN RepoResult(ErrPrepare, 0, tbl, "read", w.where)
        ELSE IF fault THEN RepoResult(ErrExec, 0, tbl, "read", w.where)
        ELSE RepoResult(ErrNil, Cardinality(Selected(tbl, filter, w)), tbl, "read", w.where)

\* Repository.insert on the given handle: the database refuses a row whose id
\* or email another row holds.
RepoInsertOn(tbl, model, fault, handle) ==
    IF fault \/ model \in tbl \/ ~UniqueKeys(tbl \cup {model})
    THEN RepoResult(ErrExec, FALSE, tbl, handle, "")
    ELSE RepoResult(ErrNil, TRUE, tbl \cup {model}, handle, "")

\* Repository.Insert
RepoInsert(tbl, model, fault) == RepoInsertOn(tbl, model, fault, "write")

\* Repository.insertBulk on the given handle: one INSERT bound to the slice.
\* The driver's named binding refuses a slice of length 0 before any statement
\* is sent; otherwise the rows go in together or, when one of them breaks a
\* constraint of the table, not at all.
RepoInsertBulkOn(tbl, models, fault, handle) ==
    LET rows == {models[i] : i \in 1..Len(models)}
        clash == \/ Cardinality(rows) < Len(models)
                 \/ rows \cap tbl # {}
                 \/ ~UniqueKeys(tbl \cup rows)
    IN  IF Len(models) = 0 THEN RepoResult(ErrExec, FALSE, tbl, "none", "")
        ELSE IF fault \/ clash THEN RepoResult(ErrExec, FALSE, tbl, handle, "")
        ELSE RepoResult(ErrNil, TRUE, tbl \cup rows, handle, "")

\* Repository.InsertTx, Repository.InsertBulk and Repository.InsertBulkTx
RepoInsertTx(tbl, model, fault) == RepoInsertOn(tbl, model, fault, "tx")
RepoInsertBulk(tbl, models, fault) == RepoInsertBulkOn(tbl, models, fault, "write")
RepoInsertBulkTx(tbl, models, fault) == RepoInsertBulkOn(tbl, models, fault, "tx")

\* A delete without the required-filter guard.
RepoDeleteUnguarded(tbl, filter, fault, handle) ==
    LET w == BuildWhereClause(filter)
    IN  IF Rejected(filter, w) \/ fault
        THEN RepoResult(ErrExec, FALSE, tbl, handle, w.where)
        ELSE RepoResult(ErrNil, TRUE, tbl \ Selected(tbl, filter, w), handle, w.where)

\* Repository.delete on the given handle.
RepoDeleteOn(tbl, filter, fault, handle) ==
    LET w == BuildWhereClause(filter)
    IN  IF w.panic THEN RepoResult(ErrPanic, FALSE, tbl, "none", "")
        ELSE IF w.where = "" THEN RepoResult(ErrRequiredFilter, FALSE, tbl, "none", "")
        ELSE IF Rejected(filter, w) \/ fault
        THEN RepoResult(ErrExec, FALSE, tbl, handle, w.where)
        ELSE RepoResult(ErrNil, TRUE, tbl \ Selected(tbl, filter, w), handle, w.where)

\* A DeleteTx that runs on the pooled write handle.
RepoDeleteTxOnWrite(tbl, filter, fault) == RepoDeleteOn(tbl, filter, fault, "write")

\* Repository.Delete and Repository.DeleteTx
RepoDelete(tbl, filter, fault) == RepoDeleteOn(tbl, filter, fault, "write")
RepoDeleteTx(tbl, filter, fault) == RepoDeleteOn(tbl, filter, fault, "tx")

\* The table after UPDATE ... SET col = :col of the rows `hit`, and whether the
\* database accepts it: no two rows may end with one id or one email.
UpdateRow(r, mod) == [c \in Columns |-> IF c \in DOMAIN mod THEN ArgText(mod[c]) ELSE r[c]]
UpdateRows(tbl, hit, mod) == (tbl \ hit) \cup {UpdateRow(r, mod) : r \in hit}
UpdateKeepsKeys(tbl, hit, mod) ==
    /\ Cardinality(UpdateRows(tbl, hit, mod)) = Cardinality(tbl)
    /\ UniqueKeys(UpdateRows(tbl, hit, mod))

\* An update that asks for a filter, as delete does.
RepoUpdateGuarded(tbl, mod, filter, fault, handle) ==
    LET w == BuildWhereClause(filter)
        args == MapsCopy(w.args, mod)
        hit == {r \in tbl : w.where # "" /\ SqlMatch(filter, r, args)}
    IN  IF w.panic THEN RepoResult(ErrPanic, FALSE, tbl, "none", "")
        ELSE IF w.where = "" THEN RepoResult(ErrRequiredFilter, FALSE, tbl, "none", "")
        ELSE IF DOMAIN mod = {} \/ ~(DOMAIN mod \subseteq Columns)
                \/ Rejected(filter, w) \/ fault \/ ~UpdateKeepsKeys(tbl, hit, mod)
        THEN RepoResult(ErrExec, FALSE, tbl, handle, w.where)
        ELSE RepoResult(ErrNil, TRUE, UpdateRows(tbl, hit, mod), handle, w.where)

\* Repository.update on the given handle: SET col = :col for the keys of `mod`,
\* the WHERE arguments overwritten by `mod` before the statement runs.  A
\* statement that breaks a constraint of the table fails and changes no row.
RepoUpdateOn(tbl, mod, filter, fault, handle) ==
    LET w == BuildWhereClause(filter)
        args == MapsCopy(w.args, mod)
        hit == IF w.where = "" THEN tbl ELSE {r \in tbl : SqlMatch(filter, r, args)}
    IN  IF w.panic THEN RepoResult(ErrPanic, FALSE, tbl, "none", "")
        ELSE IF DOMAIN mod = {} \/ ~(DOMAIN mod \subseteq Columns)
                \/ Rejected(filter, w) \/ fault \/ ~UpdateKeepsKeys(tbl, hit, mod)
        THEN RepoResult(ErrExec, FALSE, tbl, handle, w.where)
        ELSE RepoResult(ErrNil, TRUE, UpdateRows(tbl, hit, mod), handle, w.where)

\* Repository.Update and Repository.UpdateTx
RepoUpdate(tbl, mod, filter, fault) == RepoUpdateOn(tbl, mod, filter, fault, "write")
RepoUpdateTx(tbl, mod, filter, fault) == RepoUpdateOn(tbl, mod, filter, fault, "tx")

\* dto.QueryParams
MkParams(page, limit, sortBy, sortDir) ==
    [Page |-> page, Limit |-> limit, SortBy |-> sortBy, SortDir |-> sortDir]

\* A pagination text that adds OFFSET whenever it adds LIMIT.
PaginationClauseOffsetAlways(params) ==
    IF params.Limit > 0 THEN "LIMIT :limit OFFSET :offset" ELSE ""

RECURSIVE DigitsValue(_, _)
\* The number a run of decimal digits denotes, or -1 when a character is no digit.
DigitsValue(str, acc) ==
    IF Len(str) = 0 THEN acc
    ELSE LET d == CharRank(SubSeq(str, 1, 1)) - CharRank("0")
         IN  IF d < 0 \/ d > 9 \/ CharRank(SubSeq(str, 1, 1)) = 0 THEN -1
             ELSE DigitsValue(SubSeq(str, 2, Len(str)), acc * 10 + d)

RECURSIVE Significant(_)
\* A run of digits without its leading zeros.
Significant(digits) ==
    IF Len(digits) > 1 /\ SubSeq(digits, 1, 1) = "0"
    THEN Significant(SubSeq(digits, 2, Len(digits)))
    ELSE digits

\* The largest int and the magnitude of the smallest, as numerals (64 bits).
MaxIntText == "9223372036854775807"
MinIntText == "9223372036854775808"

\* Whether a run of digits under a sign lies outside the range of int.
OutOfRange(digits, negative) ==
    LET sig == Significant(digits)
        top == IF negative THEN MinIntText ELSE MaxIntText
    IN  Len(sig) > Len(top) \/ (Len(sig) = Len(top) /\ ~StrLE(sig, top))

\* strconv.Atoi: an optional sign and decimal digits, or an error; a numeral
\* that does not fit an int is an error too.
Atoi(str) ==
    LET signed == Len(str) > 0 /\ SubSeq(str, 1, 1) \in {"-", "+"}
        negative == signed /\ SubSeq(str, 1, 1) = "-"
        value(digits) ==
            IF Len(digits) = 0 THEN [err |-> TRUE, n |-> 0]
            ELSE IF \E i \in 1..Len(digits) :
                        CharRank(SubSeq(digits, i, i)) \notin CharRank("0")..CharRank("9")
            THEN [err |-> TRUE, n |-> 0]
            ELSE IF OutOfRange(digits, negative) THEN [err |-> TRUE, n |-> 0]
            ELSE [err |-> FALSE,
                  n |-> IF negative THEN -DigitsValue(digits, 0) ELSE DigitsValue(digits, 0)]
    IN  value(IF signed THEN SubSeq(str, 2, Len(str)) ELSE str)

RequestParamPage == "page"
RequestParamLimit == "limit"
RequestParamSortBy == "sort_by"
RequestParamSortDir == "sort_dir"
SortDirAsc == "ASC"
SortDirDesc == "DESC"
DefaultValuePage == 1
DefaultValueLimit == 10
DefaultValueSortBy == "created_at"
DefaultValueSortDir == "DESC"

\* QueryParams.FromRequest: `query` maps a request parameter to its text, ""
\* when the request does not carry it (fiber's ctx.Query).
FromRequest(q, query, defaultRequest) ==
    LET number(text, parsed, old) ==
            IF text # "" /\ ~parsed.err /\ parsed.n > 0 THEN parsed.n ELSE old
        direction(sortDir) ==
            IF sortDir = SortDirAsc \/ sortDir = SortDirDesc THEN sortDir ELSE q.SortDir
        defaults(read) ==
            [Page |-> IF read.Page = 0 THEN DefaultValuePage ELSE read.Page,
             Limit |-> IF read.Limit = 0 THEN DefaultValueLimit ELSE read.Limit,
             SortBy |-> IF read.SortBy = "" THEN DefaultValueSortBy ELSE read.SortBy,
             SortDir |-> IF read.SortDir = "" THEN DefaultValueSortDir ELSE read.SortDir]
        finish(read) == IF defaultRequest THEN defaults(read) ELSE read
    IN  finish([Page |-> number(query[RequestParamPage], Atoi(query[RequestParamPage]),
                                q.Page),
                Limit |-> number(query[RequestParamLimit], Atoi(query[RequestParamLimit]),
                                 q.Limit),
                SortBy |-> IF query[RequestParamSortBy] # ""
                           THEN query[RequestParamSortBy] ELSE q.SortBy,
                SortDir |-> direction(query[RequestParamSortBy])])

\* The pagination and ordering text of Repository.GetAll.
PaginationClause(params) ==
    IF params.Page > 0 /\ params.Limit > 0 THEN "LIMIT :limit OFFSET :offset"
    ELSE IF params.Limit > 0 THEN "LIMIT :limit"
    ELSE ""
OrderingClause(params) ==
    IF params.SortBy # "" /\ params.SortDir # ""
    THEN "ORDER BY " \o params.SortBy \o " " \o params.SortDir
    ELSE ""

\* The arguments Repository.GetAll adds to the WHERE arguments.
PaginationArgs(params) ==
    IF params.Page > 0 /\ params.Limit > 0
    THEN [k \in {"limit", "offset"} |->
            IF k = "limit" THEN GoInt(params.Limit)
            ELSE GoInt((params.Page - 1) * params.Limit)]
    ELSE IF params.Limit > 0 THEN MapOf("limit", GoInt(params.Limit))
    ELSE EmptyMap

\* Repository.getSelectQuery without a column list: every column of the model,
\* qualified by the table.
GetSelectQuery ==
    LET cols == <<FieldID, FieldEmail, FieldPassword, FieldLevel, FieldActive,
                  FieldModifiedBy>>
    IN  JoinStr([i \in 1..Len(cols) |-> TableName \o "." \o cols[i]], ", ")

\* The statement Repository.GetAll prepares and the arguments it binds; the users
\* repository has no join text.
GetAllQuery(params, filter) ==
    LET query(w) ==
            [text |-> "SELECT " \o GetSelectQuery \o " FROM " \o TableName \o " " \o ""
                        \o " " \o w.where \o " " \o OrderingClause(params)
                        \o " " \o PaginationClause(params),
             args |-> MapsCopy(w.args, PaginationArgs(params))]
    IN  query(BuildWhereClause(filter))

\* Every order in which the database may return `rows` under the ORDER BY text.
RowOrders(rows, params) ==
    LET n == Cardinality(rows)
        perms == {q \in [1..n -> rows] : \A i, j \in 1..n : i # j => q[i] # q[j]}
        le(a, b) == IF params.SortDir = "DESC" THEN StrLE(b, a) ELSE StrLE(a, b)
    IN  IF OrderingClause(params) = "" THEN perms
        ELSE {q \in perms :
                \A i, j \in 1..n : i < j => le(q[i][params.SortBy], q[j][params.SortBy])}

\* LIMIT and OFFSET applied to the ordered rows.
Paginate(q, args) ==
    LET off == IF "offset" \in DOMAIN args THEN args["offset"].n ELSE 0
        lim == IF "limit" \in DOMAIN args THEN args["limit"].n ELSE Len(q)
        lo == IF off > Len(q) THEN Len(q) + 1 ELSE off + 1
        hi == IF off + lim > Len(q) THEN Len(q) ELSE off + lim
    IN  SubSeq(q, lo, hi)

\* Repository.GetAll: the possible results.
RepoGetAll(tbl, params, filter, fault) ==
    LET w == BuildWhereClause(filter)
        args == MapsCopy(w.args, PaginationArgs(params))
        rows == IF w.where = "" THEN tbl ELSE {r \in tbl : SqlMatch(filter, r, args)}
        badOrder == /\ OrderingClause(params) # ""
                    /\ ~(params.SortBy \in Columns /\ params.SortDir \in {"ASC", "DESC"})
    IN  IF w.panic THEN {RepoResult(ErrPanic, <<>>, tbl, "none", "")}
        ELSE IF Rejected(filter, w) \/ badOrder
        THEN {RepoResult(ErrPrepare, <<>>, tbl, "read", w.where)}
        ELSE IF fault THEN {RepoResult(ErrExec, <<>>, tbl, "read", w.where)}
        ELSE {RepoResult(ErrNil, Paginate(q, args), tbl, "read", w.where) :
                q \in RowOrders(rows, params)}

---------------------------------------------------------------------------
(* The shared helpers (package shared) and the values the services cache.   *)

AppName == "oil"
Asterix == "*"

\* shared.CalculateTotalPage: math.Ceil of the quotient.
CalculateTotalPage(total, limit) ==
    IF total = 0 \/ limit <= 0 THEN 1 ELSE -((-total) \div limit)

\* shared.FilterByID
FilterByID(id, fieldID, tbl) ==
    MkGroup(<<MkFilter("", fieldID, GoStr(id), FilterOperatorEq, tbl)>>, "")

\* shared.BuildCacheKey with one postfix.
BuildCacheKey(key, postfix) == AppName \o ":cache:" \o key \o ":" \o postfix

\* dto.UserResponse and dto.GetUsersResponse, with FromModel and FromModels.
UserResponseFromModel(m) ==
    [t |-> "UserResponse", id |-> m[FieldID], email |-> m[FieldEmail],
     level |-> m[FieldLevel], active |-> m[FieldActive] = "true",
     modified_by |-> m[FieldModifiedBy]]
GetUsersResponseFromModels(models, totalData, limit) ==
    [t |-> "GetUsersResponse",
     users |-> [i \in 1..Len(models) |-> UserResponseFromModel(models[i])],
     total_page |-> CalculateTotalPage(totalData, limit),
     total_data |-> totalData]

RECURSIVE JsonMarshal(_)
\* json.Marshal of a value; "" stands for a marshalling error (a channel).
JsonMarshal(v) ==
    LET q(str) == "\"" \o str \o "\""
    IN  CASE v.t = "string" -> q(v.s)
          [] v.t = "int" -> ToString(v.n)
          [] v.t = "nil" -> "null"
          [] v.t = "slice" ->
                "[" \o JoinStr([i \in 1..Len(v.e) |-> JsonMarshal(v.e[i])], ",") \o "]"
          [] v.t = "UserResponse" ->
                "{" \o q("id") \o ":" \o q(v.id) \o "," \o q("email") \o ":" \o q(v.email)
                    \o "," \o q("level") \o ":" \o q(v.level)
                    \o "," \o q("active") \o ":" \o (IF v.active THEN "true" ELSE "false")
                    \o "," \o q("modified_by") \o ":" \o q(v.modified_by) \o "}"
          [] v.t = "GetUsersResponse" ->
                "{" \o q("users") \o ":["
                    \o JoinStr([i \in 1..Len(v.users) |-> JsonMarshal(v.users[i])], ",")
                    \o "]," \o q("total_page") \o ":" \o ToString(v.total_page)
                    \o "," \o q("total_data") \o ":" \o ToString(v.total_data) \o "}"
          [] OTHER -> ""

RECURSIVE Marshalable(_)
\* Whether json.Marshal accepts the value (no channel inside).
Marshalable(v) ==
    IF v.t = "chan" THEN FALSE
    ELSE IF v.t = "slice" THEN \A i \in 1..Len(v.e) : Marshalable(v.e[i])
    ELSE TRUE

RECURSIVE FilterMarshalable(_)
\* Whether json.Marshal accepts a filter tree.
FilterMarshalable(node) ==
    IF node.kind = "group"
    THEN \A i \in 1..Len(node.Filters) : FilterMarshalable(node.Filters[i])
    ELSE IF node.kind = "filter" THEN Marshalable(node.Value)
    ELSE TRUE

RECURSIVE JsonFilter(_)
\* json.Marshal of a dto.Filter or dto.FilterGroup (no json tags: Go field names).
JsonFilter(node) ==
    LET q(str) == "\"" \o str \o "\""
    IN  IF node.kind = "group"
        THEN "{" \o q("Filters") \o ":"
                 \o (IF Len(node.Filters) = 0 THEN "null"
                     ELSE "[" \o JoinStr([i \in 1..Len(node.Filters) |->
                                             JsonFilter(node.Filters[i])], ",") \o "]")
                 \o "," \o q("Operator") \o ":" \o q(node.Operator) \o "}"
        ELSE IF node.kind = "filter"
        THEN "{" \o q("ArgName") \o ":" \o q(node.ArgName)
                 \o "," \o q("Field") \o ":" \o q(node.Field)
                 \o "," \o q("Value") \o ":" \o JsonMarshal(node.Value)
                 \o "," \o q("Operator") \o ":" \o q(node.Operator)
                 \o "," \o q("Table") \o ":" \o q(node.Table) \o "}"
        ELSE q("other")

\* json.Marshal of dto.QueryParams.
JsonParams(params) ==
    LET q(str) == "\"" \o str \o "\""
    IN  "{" \o q("page") \o ":" \o ToString(params.Page)
            \o "," \o q("limit") \o ":" \o ToString(params.Limit)
            \o "," \o q("sort_by") \o ":" \o q(params.SortBy)
            \o "," \o q("sort_dir") \o ":" \o q(params.SortDir) \o "}"

\* A query hash that leaves the filter out of the digest.
GenerateQueryHashOfParams(params, filter) ==
    IF ~FilterMarshalable(filter)
    THEN "page_" \o ToString(params.Page) \o "_limit_" \o ToString(params.Limit)
            \o "_sortBy_" \o params.SortBy \o "_sortDir_" \o params.SortDir
    ELSE "md5({\"query_params\":" \o JsonParams(params) \o "})"

\* A query hash whose fallback leaves the sort direction out.
GenerateQueryHashShortFallback(params, filter) ==
    IF ~FilterMarshalable(filter)
    THEN "page_" \o ToString(params.Page) \o "_limit_" \o ToString(params.Limit)
            \o "_sortBy_" \o params.SortBy
    ELSE "md5({\"query_params\":" \o JsonParams(params)
            \o ",\"filter\":" \o JsonFilter(filter) \o "})"

\* shared.generateQueryHash: the digest of the serialized pair, or the literal
\* fallback when the pair cannot be serialized.  The digest is written md5(text):
\* two digests are equal exactly when the texts are.
GenerateQueryHash(params, filter) ==
    IF ~FilterMarshalable(filter)
    THEN "page_" \o ToString(params.Page) \o "_limit_" \o ToString(params.Limit)
            \o "_sortBy_" \o params.SortBy \o "_sortDir_" \o params.SortDir
    ELSE "md5({\"query_params\":" \o JsonParams(params)
            \o ",\"filter\":" \o JsonFilter(filter) \o "})"

\* shared.BuildCacheKeyWithQuery
BuildCacheKeyWithQuery(key, params, filter) ==
    AppName \o ":cache:" \o key \o ":" \o GenerateQueryHash(params, filter)

---------------------------------------------------------------------------
(* The cache wrapper (shared/cache/cache.go) over the Redis store.          *)

\* Errors: nil, or a message wrapping a cause that errors.Is can find.
NoErr == [isNil |-> TRUE, msg |-> "", unwrap |-> "none"]
MkErr(msg, cause) == [isNil |-> FALSE, msg |-> msg, unwrap |-> cause]
RedisNil == "redis: nil"
RedisDown == "dial tcp: connection refused"
JsonSyntax == "json: cannot unmarshal"
JsonUnsupported == "json: unsupported type"

\* errors.Is(err, cache.Nil)
ErrorsIsCacheNil(err) == ~err.isNil /\ err.unwrap = RedisNil

\* The numbers and the strings the cached values are made of.
Ids == {ToString(i) : i \in 1..MaxIds}
Emails == {"a@x", "b@x"}
Levels == {"1", "2"}
Creators == {"guest"}
Editors == {"admin"}
Actors == Creators \cup Editors
CacheInts == 0..MaxIds

UserResponses ==
    {[t |-> "UserResponse", id |-> i, email |-> e, level |-> l, active |-> a,
      modified_by |-> m] :
        i \in Ids, e \in Emails, l \in Levels, a \in BOOLEAN, m \in Actors \cup Ids}

\* The email and the level the listings are asked for.
ListedEmail == "a@x"
ListedLevel == "1"

\* The listings FromModels builds for a query by email and level, ordered by
\* created_at DESC: rows of that email and level, the newest first (ids are
\* handed out in the order of creation), with the total pages of the total.
UserListings ==
    LET listed == {u \in UserResponses : u.email = ListedEmail /\ u.level = ListedLevel}
        seqs == UNION {{q \in [1..n -> listed] :
                            \A i, j \in 1..n : i < j =>
                                q[i].id # q[j].id /\ StrLE(q[j].id, q[i].id)} :
                       n \in 0..MaxIds}
    IN  {[t |-> "GetUsersResponse", users |-> q,
          total_page |-> CalculateTotalPage(td, DefaultValueLimit), total_data |-> td] :
            q \in seqs, td \in CacheInts}

\* json.Unmarshal into a destination of type `destT`, as the inverse of
\* json.Marshal on the values of that type: a table from text to value.
TableOf(pairs) ==
    [text \in {p[1] : p \in pairs} |-> (CHOOSE p \in pairs : p[1] = text)[2]]
Inverse(values) == TableOf({<<JsonMarshal(v), v>> : v \in values})
CodecInt == Inverse({GoInt(n) : n \in CacheInts \cup 0..MaxRequests})
CodecUser == Inverse(UserResponses)
CodecUsers == Inverse(UserListings)
Codec(destT) ==
    CASE destT = "int" -> CodecInt
      [] destT = "UserResponse" -> CodecUser
      [] destT = "GetUsersResponse" -> CodecUsers

\* The zero value of a destination.
ZeroOf(destT) ==
    CASE destT = "int" -> GoInt(0)
      [] destT = "string" -> GoStr("")
      [] destT = "UserResponse" ->
            [t |-> "UserResponse", id |-> "", email |-> "", level |-> "", active |-> FALSE,
             modified_by |-> ""]
      [] destT = "GetUsersResponse" ->
            [t |-> "GetUsersResponse", users |-> <<>>, total_page |-> 0, total_data |-> 0]

\* redisCache.Save: a string is stored raw, anything else as JSON.
CacheSave(store, key, value, fault) ==
    IF value.t # "string" /\ ~Marshalable(value)
    THEN [err |-> MkErr("failed to marshal cache value", JsonUnsupported), store |-> store]
    ELSE IF fault
    THEN [err |-> MkErr("failed to set cache value", RedisDown), store |-> store]
    ELSE [err |-> NoErr,
          store |-> (key :> (IF value.t = "string" THEN value.s ELSE JsonMarshal(value)))
                        @@ store]

\* A Get whose every failure wraps redis.Nil.
CacheGetAlwaysNil(store, key, destT, fault) ==
    IF ~fault /\ key \in DOMAIN store /\ destT # "string"
       /\ store[key] \in DOMAIN Codec(destT)
    THEN [err |-> NoErr, dest |-> Codec(destT)[store[key]]]
    ELSE [err |-> MkErr("failed to get cache value", RedisNil), dest |-> ZeroOf(destT)]

\* redisCache.Get into a destination of type `destT` holding its zero value.  A
\* *string destination takes the bytes and then falls through to the final
\* return, which wraps the nil error.
CacheGet(store, key, destT, fault) ==
    IF fault
    THEN [err |-> MkErr("failed to get cache value", RedisDown), dest |-> ZeroOf(destT)]
    ELSE IF key \notin DOMAIN store
    THEN [err |-> MkErr("failed to get cache value", RedisNil), dest |-> ZeroOf(destT)]
    ELSE IF destT = "string"
    THEN [err |-> MkErr("failed to get cache value", "none"), dest |-> GoStr(store[key])]
    ELSE IF store[key] \in DOMAIN Codec(destT)
    THEN [err |-> NoErr, dest |-> Codec(destT)[store[key]]]
    ELSE [err |-> MkErr("failed to unmarshal cache value", JsonSyntax),
          dest |-> ZeroOf(destT)]

\* redisCache.Delete
CacheDelete(store, key, fault) ==
    IF fault
    THEN [err |-> MkErr("failed to delete cache value", RedisDown), store |-> store]
    ELSE [err |-> NoErr, store |-> [k \in DOMAIN store \ {key} |-> store[k]]]

\* The keys a SCAN with MATCH `pattern` returns: a trailing * matches any suffix.
GlobMatch(pattern, key) ==
    LET n == Len(pattern)
    IN  IF n > 0 /\ SubSeq(pattern, n, n) = Asterix
        THEN Len(key) >= n - 1 /\ SubSeq(key, 1, n - 1) = SubSeq(pattern, 1, n - 1)
        ELSE key = pattern
ScanKeys(store, pattern) == {k \in DOMAIN store : GlobMatch(pattern, k)}

\* redisCache.Clear is a SCAN iteration with one DEL per key returned: the
\* iterator sends the first SCAN, hands out the keys of the page one by one and
\* sends the next SCAN from inside iter.Next once the page is used up, until a
\* reply carries cursor 0.  Every command is a round trip of its own.  The
\* state of one Clear under way: the keys of the page still to be deleted,
\* whether the last reply carried a cursor other than 0, the SCANs sent, and
\* the keys `owed`: those in the store since the iteration began that no page
\* has held yet.
NoClear == [page |-> {}, more |-> TRUE, scans |-> 0, owed |-> {}]

\* What one SCAN may answer.  Redis returns every key that is in the store from
\* the start of the iteration to its end, so the reply that ends the iteration
\* holds what is still owed; a key saved since the start may be in a page or
\* not.  `final` bounds the iteration: the reply must end it.
ScanReplies(store, pattern, owed, final) ==
    {rep \in [page : SUBSET ScanKeys(store, pattern), more : BOOLEAN] :
        /\ final => ~rep.more
        /\ ~rep.more => owed \subseteq rep.page}

\* redisCache.Clear, one SCAN: the possible states after it and whether Clear
\* goes on ("run") or returns nil.  A SCAN that fails ends the iteration
\* without a word (iter.Err is never read), and Clear returns nil.
ClearScan(store, pattern, c, fault) ==
    LET owed == IF c.scans = 0 THEN ScanKeys(store, pattern) ELSE c.owed
        after(rep) == [page |-> rep.page, more |-> rep.more, scans |-> c.scans + 1,
                       owed |-> owed \ rep.page]
    IN  IF fault THEN {[c |-> c, ret |-> "nil"]}
        ELSE {[c |-> after(rep),
               ret |-> IF rep.page = {} /\ ~rep.more THEN "nil" ELSE "run"] :
                rep \in ScanReplies(store, pattern, owed, c.scans + 1 >= MaxScans)}

\* redisCache.Clear, the DEL of one key of the page: a failure ends Clear with
\* an error; after the last key of the last page Clear returns nil.
ClearDel(store, c, key, fault) ==
    LET left == c.page \ {key}
    IN  IF fault
        THEN [store |-> store, c |-> c, ret |-> "err",
              err |-> MkErr("failed to delete cache value", RedisDown)]
        ELSE [store |-> [k \in DOMAIN store \ {key} |-> store[k]],
              c |-> [c EXCEPT !.page = left],
              ret |-> IF left = {} /\ ~c.more THEN "nil" ELSE "run",
              err |-> NoErr]

\* A key left the store: no iteration under way owes it any longer.
Forget(calls, key) ==
    BagOfAll(LAMBDA t : [t EXCEPT !.c.owed = @ \ {key}], calls)

---------------------------------------------------------------------------
(* The user service (internal/domains/user/service) and the part of the    *)
(* auth service that writes the same table, as concurrent requests.  A     *)
(* request is a record with its position `pc`; a detached goroutine is a   *)
(* task.  Every repository call and every cache command is one step.       *)

cacheGetUser == "user:get"
cacheGetAllUser == "user:gets"
cacheCountUser == "user:count"

ContextGuest == "guest"
RoleUser == "2"
Passwords == {"pw1", "pw2"}

\* A password of 73 bytes, one more than bcrypt takes.
LongPassword ==
    "aaaaaaaaaaaaaaaaaaaaaaaaaaaaaaaaaaaaaaaaaaaaaaaaaaaaaaaaaaaaaaaaaaaaaaaaa"
BcryptMaxBytes == 72

\* The salts bcrypt may draw for a hash.
Salts == {"s1", "s2"}
ErrInvalidPassword == "invalid password"
ErrPasswordTooLong == "bcrypt: password length exceeds 72 bytes"
ErrHashTooShort == "crypto/bcrypt: hashedSecret too short to be a bcrypted password"

\* The text of a bcrypt hash: version, salt, digest.  The digest stands for the
\* password under that salt and is closed by a mark, so that a hash cut short
\* is no hash.
BcryptText(salt, pw) == "$2a$" \o salt \o "$" \o pw \o "$"
BcryptWellFormed(hash) ==
    /\ Len(hash) >= 9
    /\ SubSeq(hash, 1, 4) = "$2a$"
    /\ SubSeq(hash, 7, 7) = "$"
    /\ SubSeq(hash, Len(hash), Len(hash)) = "$"

\* password.Hash, with the salt bcrypt.GenerateFromPassword drew.
PasswordHash(pw, salt) ==
    IF pw = "" THEN [err |-> "password cannot be empty", hash |-> ""]
    ELSE IF Len(pw) > BcryptMaxBytes
    THEN [err |-> "failed to hash password: " \o ErrPasswordTooLong, hash |-> ""]
    ELSE [err |-> ErrNil, hash |-> BcryptText(salt, pw)]

\* The bytes of a password bcrypt keys its cipher with when it compares.
BcryptKey(pw) == IF Len(pw) > BcryptMaxBytes THEN SubSeq(pw, 1, BcryptMaxBytes) ELSE pw

\* password.Verify: bcrypt hashes the password again under the salt of `hash`,
\* with no check of its length; a text that is no hash is an error of its own.
PasswordVerify(pw, hash) ==
    IF pw = "" \/ hash = "" THEN ErrInvalidPassword
    ELSE IF ~BcryptWellFormed(hash)
    THEN "failed to verify password: " \o ErrHashTooShort
    ELSE IF hash = BcryptText(SubSeq(hash, 5, 6), BcryptKey(pw)) THEN ErrNil
    ELSE ErrInvalidPassword

\* Handler.GetUsers: the parameters and the filter it hands to GetAll.  Both
\* filters are always sent, with "" for a parameter the request does not carry;
\* the paging parameters are the defaults of a request that names none.
GetUsersQuery(email, level) ==
    [params |-> FromRequest(MkParams(0, 0, "", ""),
                            [p \in {RequestParamPage, RequestParamLimit, RequestParamSortBy,
                                    RequestParamSortDir} |-> ""],
                            TRUE),
     filter |-> MkGroup(<<MkFilter("", FieldEmail, GoStr(email), FilterOperatorEq, TableName),
                          MkFilter("", FieldLevel, GoStr(level), FilterOperatorEq, TableName)>>,
                        FilterGroupOperatorAnd)]

\* The listings asked for: GET /v1/users, and GET /v1/users?email=a@x&level=1.
Queries == << GetUsersQuery(ListedEmail, ListedLevel) >>
QueryIds == DOMAIN Queries

\* The filter Create and Register test the email with.
EmailFilter(email) ==
    MkGroup(<<MkFilter("", FieldEmail, GoStr(email), FilterOperatorEq, TableName)>>, "")

\* CreateUserRequest.ToModel and RegisterRequest.ToUserModel
\* `id` is what uuid.NewString returned and `now` the reading of the clock the
\* row is stamped with.
CreateUserRequestToModel(id, now, email, level, username, hashedPassword) ==
    [c \in Columns |->
        CASE c = FieldID -> id
          [] c = FieldEmail -> email
          [] c = FieldPassword -> hashedPassword
          [] c = FieldLevel -> (IF level = "" THEN RoleUser ELSE level)
          [] c = FieldActive -> "true"
          [] c = FieldModifiedBy -> username
          [] c = FieldCreatedAt -> now]
RegisterRequestToUserModel(id, now, email, username, hashedPassword) ==
    [c \in Columns |->
        CASE c = FieldID -> id
          [] c = FieldEmail -> email
          [] c = FieldPassword -> hashedPassword
          [] c = FieldLevel -> RoleUser
          [] c = FieldActive -> "true"
          [] c = FieldModifiedBy -> username
          [] c = FieldCreatedAt -> now]

\* shared.TransformFields on the db-tagged non-zero fields of a request.
TransformFields(fields, user) == MapsCopy(fields, MapOf(FieldModifiedBy, GoStr(user)))

\* The db-tagged fields of the update requests: UpdateUserRequest carries no db
\* tag on any field, UpdatePasswordRequest tags its one field.
UpdateUserRequestFields(level) == EmptyMap
UpdatePasswordRequestFields(hashedPassword) == MapOf(FieldPassword, GoStr(hashedPassword))

\* UpdateLastLoginRequest tags its one field, last_login, a column the model
\* does not keep.
UpdateLastLoginRequestFields == EmptyMap

\* The errors the services return.
ErrNotFound == "user not found"
ErrEmailTaken == "email already registered"
ErrEmptyUpdate == "update request cannot be empty"
ErrWrongPassword == "current password is incorrect"
ErrInvalidLogin == "invalid email or password"
ErrDeactivated == "user account is deactivated"
ErrGenerateAccessToken == "failed to generate access token"
Wrap(msg, err) == msg \o ": " \o err

\* A test that also takes an absent key for a hit.
CacheHitOrAbsent(got) == got.err.isNil \/ ErrorsIsCacheNil(got.err)

\* `if err == nil` after cache.Get: a hit.
CacheHit(got) == got.err.isNil

\* A method that reports a failure whatever the write returned, and one that
\* reports success whatever the write returned.
MutationReturnFailure(msg, err) == Wrap(msg, err)
MutationReturnSuccess(msg, err) == ErrNil

\* The outcome of a mutating method once its repository write returned `err`.
MutationReturn(msg, err) == IF err # ErrNil THEN Wrap(msg, err) ELSE ErrNil

Reads == {"Get", "GetAll", "Count"}
Mutations == {"Create", "Update", "Delete"}
AuthOps == {"Register", "Login", "ChangePassword"}

NoGet == [err |-> NoErr, dest |-> GoNil]

\* A request in flight.  Requests carry no identity: `reqs` is a bag.  `target`
\* is the id of a successful Delete that was the last call to return before the
\* request started.
MkReq(op, pc, id, q, email, level, pw, actor) ==
    [op |-> op, pc |-> pc, id |-> id, q |-> q, email |-> email, level |-> level,
     pw |-> pw, actor |-> actor, total |-> 0, got |-> NoGet,
     target |-> (IF last.op = "Delete" /\ last.wrote THEN last.id ELSE "")]

\* What a finished request returned, and what it did on the way.
MkLast(r, err, val, hit, got, repo, wrote) ==
    [op |-> r.op, id |-> r.id, q |-> r.q, err |-> err, val |-> val, hit |-> hit,
     got |-> got, repo |-> repo, wrote |-> wrote, target |-> r.target]

\* Detached goroutines: a Save of one value, or the invalidation of a mutation.
SaveTask(key, val) ==
    [kind |-> "save", op |-> "", id |-> "", key |-> key, val |-> val, pc |-> "save",
     c |-> NoClear, fault |-> FALSE]
InvalTask(op, id) ==
    [kind |-> "inval", op |-> op, id |-> id, key |-> "", val |-> GoNil,
     pc |-> (IF op = "Create" THEN "scan1" ELSE "del"),
     c |-> NoClear, fault |-> FALSE]

Drop(f, x) == [y \in DOMAIN f \ {x} |-> f[y]]
One(e) == SetToBag({e})

InFlight == BagToSet(reqs)
Pending == BagToSet(tasks)
Quiescent == InFlight = {} /\ Pending = {}

\* The initial table: empty, or one row left by an earlier run.
Row1 ==
    CreateUserRequestToModel("1", "1", "a@x", "1", ContextGuest,
                             PasswordHash("pw1", "s1").hash)
\* A row whose active flag was cleared in the database: the services never
\* clear it (ToModel and ToUserModel set it, no update request carries it).
Deactivated(row) == [row EXCEPT ![FieldActive] = "false"]
NoLast ==
    [op |-> "", id |-> "", q |-> 0, err |-> ErrNil, val |-> GoNil, hit |-> FALSE,
     got |-> NoGet, repo |-> 0, wrote |-> FALSE, target |-> ""]

\* The keys of a listing and of its total.
ListKeys ==
    [q \in QueryIds |->
        BuildCacheKeyWithQuery(cacheGetAllUser, Queries[q].params, Queries[q].filter)]
CountKeys ==
    [q \in QueryIds |->
        BuildCacheKeyWithQuery(cacheCountUser, Queries[q].params, Queries[q].filter)]
ListKey(q) == ListKeys[q]
CountKey(q) == CountKeys[q]

\* What the services cache for a table no request is changing: every entity,
\* every listing and every total.
WarmCache(tbl) ==
    LET total(q) == RepoCount(tbl, Queries[q].filter, FALSE).val
        listing(q) ==
            GetUsersResponseFromModels(
                (CHOOSE res \in RepoGetAll(tbl, Queries[q].params, Queries[q].filter,
                                           FALSE) : TRUE).val,
                total(q), Queries[q].params.Limit)
        gets == [k \in {BuildCacheKey(cacheGetUser, r[FieldID]) : r \in tbl} |->
                    JsonMarshal(UserResponseFromModel(
                        CHOOSE r \in tbl : BuildCacheKey(cacheGetUser, r[FieldID]) = k))]
        lists == [k \in {ListKey(q) : q \in QueryIds} |->
                    JsonMarshal(listing(CHOOSE q \in QueryIds : ListKey(q) = k))]
        counts == [k \in {CountKey(q) : q \in QueryIds} |->
                    JsonMarshal(GoInt(total(CHOOSE q \in QueryIds : CountKey(q) = k)))]
    IN  gets @@ lists @@ counts

\* The service starts on the table and the Redis store an earlier run left: the
\* store is empty or holds what was cached for that table.
Init ==
    /\ nextId \in {0, 1}
    /\ table \in (IF nextId = 1 THEN {{Row1}, {Deactivated(Row1)}} ELSE {{}})
    /\ cache \in {EmptyMap, WarmCache(table)}
    /\ reqs = EmptyBag
    /\ tasks = EmptyBag
    /\ hist = [started |-> 0, cacheFault |-> FALSE, expired |-> 0, authWrote |-> FALSE,
               log |-> {}]
    /\ last = NoLast

\* The ways a step leaves a request: it enters the service, returns at once,
\* moves on to its next call, or returns after a later call.
Enter(r) == reqs' = reqs (+) One(r) /\ last' = last
Return(rec) == reqs' = reqs /\ last' = rec
Move(r, r2) == reqs' = (reqs (-) One(r)) (+) One(r2) /\ last' = last
Leave(r, rec) == reqs' = reqs (-) One(r) /\ last' = rec

\* Bookkeeping of a step that ran a cache command which failed or not.
NoteFault(failed) == [hist EXCEPT !.cacheFault = @ \/ failed]
NoteLog(failed, msg) ==
    IF failed THEN [hist EXCEPT !.cacheFault = TRUE, !.log = @ \cup {msg}] ELSE hist

\* user service Get, up to the cache lookup.
StartGet ==
    \E id \in Ids, fault \in BOOLEAN :
        LET r == MkReq("Get", "db", id, 0, "", "", "", "")
            got == CacheGet(cache, BuildCacheKey(cacheGetUser, id), "UserResponse", fault)
        IN  /\ hist.started < MaxReqs
            /\ hist' = [hist EXCEPT !.started = @ + 1, !.cacheFault = @ \/ fault]
            /\ IF CacheHit(got)
               THEN Return(MkLast(r, ErrNil, got.dest, TRUE, got, 0, FALSE))
               ELSE Enter([r EXCEPT !.got = got])
            /\ UNCHANGED <<table, cache, nextId, tasks>>

\* user service Get from repo.Get on, saving whatever the read returned.
GetDbSavesAbsence ==
    \E r \in InFlight, fault \in BOOLEAN :
        /\ r.op = "Get" /\ r.pc = "db"
        /\ \E res \in RepoGet(table, FilterByID(r.id, FieldID, TableName), fault) :
            LET val == UserResponseFromModel(res.val)
            IN  IF res.err # ErrNil
                THEN /\ Leave(r, MkLast(r, Wrap("failed to get user", res.err),
                                        ZeroOf("UserResponse"), FALSE, r.got, 1, FALSE))
                     /\ tasks' = tasks
                ELSE /\ Leave(r, MkLast(r, IF res.val[FieldID] = "" THEN ErrNotFound ELSE ErrNil,
                                        val, FALSE, r.got, 1, FALSE))
                     /\ tasks' = tasks (+) One(SaveTask(BuildCacheKey(cacheGetUser, r.id),
                                                        val))
        /\ UNCHANGED <<table, cache, nextId, hist>>

\* user service Get, from repo.Get to the return.
GetDb ==
    \E r \in InFlight, fault \in BOOLEAN :
        /\ r.op = "Get" /\ r.pc = "db"
        /\ \E res \in RepoGet(table, FilterByID(r.id, FieldID, TableName), fault) :
            LET val == UserResponseFromModel(res.val)
            IN  IF res.err # ErrNil
                THEN /\ Leave(r, MkLast(r, Wrap("failed to get user", res.err),
                                        ZeroOf("UserResponse"), FALSE, r.got, 1, FALSE))
                     /\ tasks' = tasks
                ELSE IF res.val[FieldID] = ""
                THEN /\ Leave(r, MkLast(r, ErrNotFound, ZeroOf("UserResponse"),
                                        FALSE, r.got, 1, FALSE))
                     /\ tasks' = tasks
                ELSE /\ Leave(r, MkLast(r, ErrNil, val, FALSE, r.got, 1, FALSE))
                     /\ tasks' = tasks (+) One(SaveTask(BuildCacheKey(cacheGetUser, r.id),
                                                        val))
        /\ UNCHANGED <<table, cache, nextId, hist>>

\* user service Count, up to the cache lookup.
StartCount ==
    \E q \in QueryIds, fault \in BOOLEAN :
        LET r == MkReq("Count", "countdb", "", q, "", "", "", "")
            got == CacheGet(cache, CountKey(q), "int", fault)
        IN  /\ hist.started < MaxReqs
            /\ hist' = [hist EXCEPT !.started = @ + 1, !.cacheFault = @ \/ fault]
            /\ IF CacheHit(got)
               THEN Return(MkLast(r, ErrNil, got.dest, TRUE, got, 0, FALSE))
               ELSE Enter([r EXCEPT !.got = got])
            /\ UNCHANGED <<table, cache, nextId, tasks>>

\* user service Count, from repo.Count to the return; GetAll's call of Count
\* goes on to repo.GetAll with the total.
CountDb ==
    \E r \in InFlight, fault \in BOOLEAN :
        LET res == RepoCount(table, Queries[r.q].filter, fault)
        IN  /\ r.op \in {"Count", "GetAll"} /\ r.pc = "countdb"
            /\ IF res.err # ErrNil
               THEN /\ Leave(r, MkLast(r,
                            IF r.op = "Count" THEN Wrap("failed to count users", res.err)
                            ELSE Wrap("failed to count users",
                                      Wrap("failed to count users", res.err)),
                            ZeroOf(IF r.op = "Count" THEN "int" ELSE "GetUsersResponse"),
                            FALSE, r.got, 1, FALSE))
                    /\ tasks' = tasks
               ELSE /\ tasks' = tasks (+) One(SaveTask(CountKey(r.q), GoInt(res.val)))
                    /\ IF r.op = "Count"
                       THEN Leave(r, MkLast(r, ErrNil, GoInt(res.val), FALSE, r.got, 1, FALSE))
                       ELSE Move(r, [r EXCEPT !.pc = "db", !.total = res.val])
            /\ UNCHANGED <<table, cache, nextId, hist>>

\* user service GetAll, up to the cache lookup of the listing.
StartGetAll ==
    \E q \in QueryIds, fault \in BOOLEAN :
        LET r == MkReq("GetAll", "count", "", q, "", "", "", "")
            got == CacheGet(cache, ListKey(q), "GetUsersResponse", fault)
        IN  /\ hist.started < MaxReqs
            /\ hist' = [hist EXCEPT !.started = @ + 1, !.cacheFault = @ \/ fault]
            /\ IF CacheHit(got)
               THEN Return(MkLast(r, ErrNil, got.dest, TRUE, got, 0, FALSE))
               ELSE Enter([r EXCEPT !.got = got])
            /\ UNCHANGED <<table, cache, nextId, tasks>>

\* GetAll's call of Count, up to the cache lookup of the total.
GetAllCount ==
    \E r \in InFlight, fault \in BOOLEAN :
        LET got == CacheGet(cache, CountKey(r.q), "int", fault)
        IN  /\ r.op = "GetAll" /\ r.pc = "count"
            /\ Move(r, [r EXCEPT !.pc = IF CacheHit(got) THEN "db" ELSE "countdb",
                                 !.total = IF CacheHit(got) THEN got.dest.n ELSE 0])
            /\ hist' = NoteFault(fault)
            /\ UNCHANGED <<table, cache, nextId, tasks>>

\* user service GetAll, from repo.GetAll to the return.
GetAllDb ==
    \E r \in InFlight, fault \in BOOLEAN :
        /\ r.op = "GetAll" /\ r.pc = "db"
        /\ \E res \in RepoGetAll(table, Queries[r.q].params, Queries[r.q].filter, fault) :
            LET val == GetUsersResponseFromModels(res.val, r.total,
                                                  Queries[r.q].params.Limit)
            IN  IF res.err # ErrNil
                THEN /\ Leave(r, MkLast(r, Wrap("failed to get users", res.err),
                                        ZeroOf("GetUsersResponse"), FALSE, r.got, 1, FALSE))
                     /\ tasks' = tasks
                ELSE /\ Leave(r, MkLast(r, ErrNil, val, FALSE, r.got, 1, FALSE))
                     /\ tasks' = tasks (+) One(SaveTask(ListKey(r.q), val))
        /\ UNCHANGED <<table, cache, nextId, hist>>

\* user service Create, up to the email check.
StartCreate ==
    \E email \in Emails, level \in {"", "1"}, pw \in {"pw1", LongPassword},
       actor \in Creators, fault \in BOOLEAN :
        LET r == MkReq("Create", "insert", "", 0, email, level, pw, actor)
            res == RepoExist(table, EmailFilter(email), fault)
        IN  /\ hist.started < MaxReqs /\ nextId < MaxIds
            /\ hist' = [hist EXCEPT !.started = @ + 1]
            /\ IF res.err # ErrNil
               THEN Return(MkLast(r, Wrap("failed to check if user exists", res.err),
                                  GoNil, FALSE, NoGet, 1, FALSE))
               ELSE IF res.val
               THEN Return(MkLast(r, ErrEmailTaken, GoNil, FALSE, NoGet, 1, FALSE))
               ELSE Enter(r)
            /\ UNCHANGED <<table, cache, nextId, tasks>>

\* user service Create, from password.Hash and the Insert to the return: the
\* invalidation is handed to a goroutine and the method returns.
CreateInsert ==
    \E r \in InFlight, salt \in Salts, fault \in BOOLEAN :
        LET id == ToString(nextId + 1)
            hashed == PasswordHash(r.pw, salt)
            res == RepoInsert(table, CreateUserRequestToModel(id, id, r.email, r.level, r.actor,
                                                              hashed.hash), fault)
            ret == MutationReturn("failed to create user", res.err)
        IN  /\ r.op = "Create" /\ r.pc = "insert" /\ nextId < MaxIds
            /\ IF hashed.err # ErrNil
               THEN /\ Leave(r, MkLast(r, Wrap("failed to hash password", hashed.err),
                                       GoNil, FALSE, NoGet, 1, FALSE))
                    /\ UNCHANGED <<table, nextId, tasks>>
               ELSE /\ Leave(r, MkLast(r, ret, GoNil, FALSE, NoGet, 2, res.err = ErrNil))
                    /\ table' = res.table
                    /\ nextId' = IF res.err = ErrNil THEN nextId + 1 ELSE nextId
                    /\ tasks' = IF ret = ErrNil
                                THEN tasks (+) One(InvalTask("Create", ""))
                                ELSE tasks
            /\ UNCHANGED <<cache, hist>>

\* user service Update, up to the existence check.
StartUpdate ==
    \E id \in Ids, level \in {"", "1"}, actor \in Editors, fault \in BOOLEAN :
        LET r == MkReq("Update", "write", id, 0, "", level, "", actor)
            res == RepoExist(table, FilterByID(id, FieldID, TableName), fault)
        IN  /\ hist.started < MaxReqs
            /\ hist' = [hist EXCEPT !.started = @ + 1]
            /\ IF level = ""
               THEN Return(MkLast(r, ErrEmptyUpdate, GoNil, FALSE, NoGet, 0, FALSE))
               ELSE IF res.err # ErrNil
               THEN Return(MkLast(r, Wrap("failed to check if user exists", res.err),
                                  GoNil, FALSE, NoGet, 1, FALSE))
               ELSE IF ~res.val
               THEN Return(MkLast(r, ErrNotFound, GoNil, FALSE, NoGet, 1, FALSE))
               ELSE Enter(r)
            /\ UNCHANGED <<table, cache, nextId, tasks>>

\* user service Update, from the Update statement to the return.
UpdateWrite ==
    \E r \in InFlight, fault \in BOOLEAN :
        LET res == RepoUpdate(table, TransformFields(UpdateUserRequestFields(r.level), r.actor),
                              FilterByID(r.id, FieldID, TableName), fault)
            ret == MutationReturn("failed to update user", res.err)
        IN  /\ r.op = "Update" /\ r.pc = "write"
            /\ Leave(r, MkLast(r, ret, GoNil, FALSE, NoGet, 2, res.err = ErrNil))
            /\ table' = res.table
            /\ tasks' = IF ret = ErrNil
                        THEN tasks (+) One(InvalTask("Update", r.id))
                        ELSE tasks
            /\ UNCHANGED <<cache, nextId, hist>>

\* user service Delete, up to the existence check.
StartDelete ==
    \E id \in Ids, fault \in BOOLEAN :
        LET r == MkReq("Delete", "write", id, 0, "", "", "", "")
            res == RepoExist(table, FilterByID(id, FieldID, TableName), fault)
        IN  /\ hist.started < MaxReqs
            /\ hist' = [hist EXCEPT !.started = @ + 1]
            /\ IF res.err # ErrNil
               THEN Return(MkLast(r, Wrap("failed to check if user exists", res.err),
                                  GoNil, FALSE, NoGet, 1, FALSE))
               ELSE IF ~res.val
               THEN Return(MkLast(r, ErrNotFound, GoNil, FALSE, NoGet, 1, FALSE))
               ELSE Enter(r)
            /\ UNCHANGED <<table, cache, nextId, tasks>>

\* user service Delete, from the Delete statement to the return.
DeleteWrite ==
    \E r \in InFlight, fault \in BOOLEAN :
        LET res == RepoDelete(table, FilterByID(r.id, FieldID, TableName), fault)
            ret == MutationReturn("failed to delete user", res.err)
        IN  /\ r.op = "Delete" /\ r.pc = "write"
            /\ Leave(r, MkLast(r, ret, GoNil, FALSE, NoGet, 2, res.err = ErrNil))
            /\ table' = res.table
            /\ tasks' = IF ret = ErrNil
                        THEN tasks (+) One(InvalTask("Delete", r.id))
                        ELSE tasks
            /\ UNCHANGED <<cache, nextId, hist>>

\* auth service Register, up to the email check.
StartRegister ==
    \E email \in Emails, pw \in {"pw1", LongPassword}, fault \in BOOLEAN :
        LET r == MkReq("Register", "insert", "", 0, email, "", pw, ContextGuest)
            res == RepoExist(table, EmailFilter(email), fault)
        IN  /\ hist.started < MaxReqs /\ nextId < MaxIds
            /\ hist' = [hist EXCEPT !.started = @ + 1]
            /\ IF res.err # ErrNil
               THEN Return(MkLast(r, Wrap("failed to check if user exists", res.err),
                                  GoNil, FALSE, NoGet, 1, FALSE))
               ELSE IF res.val
               THEN Return(MkLast(r, ErrEmailTaken, GoNil, FALSE, NoGet, 1, FALSE))
               ELSE Enter(r)
            /\ UNCHANGED <<table, cache, nextId, tasks>>

\* auth service Register, from password.Hash and the Insert to the return: no
\* goroutine, no cache.
RegisterInsert ==
    \E r \in InFlight, salt \in Salts, fault \in BOOLEAN :
        LET id == ToString(nextId + 1)
            hashed == PasswordHash(r.pw, salt)
            res == RepoInsert(table, RegisterRequestToUserModel(id, id, r.email, ContextGuest,
                                                                hashed.hash), fault)
        IN  /\ r.op = "Register" /\ r.pc = "insert" /\ nextId < MaxIds
            /\ IF hashed.err # ErrNil
               THEN /\ Leave(r, MkLast(r, Wrap("failed to hash password", hashed.err),
                                       GoNil, FALSE, NoGet, 1, FALSE))
                    /\ UNCHANGED <<table, nextId, hist>>
               ELSE /\ Leave(r, MkLast(r, MutationReturn("failed to create user", res.err),
                                       GoNil, FALSE, NoGet, 2, res.err = ErrNil))
                    /\ table' = res.table
                    /\ nextId' = IF res.err = ErrNil THEN nextId + 1 ELSE nextId
                    /\ hist' = [hist EXCEPT !.authWrote = @ \/ res.err = ErrNil]
            /\ UNCHANGED <<cache, tasks>>

\* auth service Login, up to the token pair: the row of the email, the password
\* check, the active flag and GenerateTokenPair, which signs the pair without a
\* store and may fail.
StartLogin ==
    \E email \in Emails, pw \in Passwords, fault \in BOOLEAN, signFault \in BOOLEAN :
        /\ hist.started < MaxReqs
        /\ \E res \in RepoGet(table, EmailFilter(email), fault) :
            LET r == MkReq("Login", "write", res.val[FieldID], 0, email, "", pw,
                           res.val[FieldID])
            IN  /\ hist' = [hist EXCEPT !.started = @ + 1]
                /\ IF res.err # ErrNil
                   THEN Return(MkLast(r, ErrInvalidLogin, GoNil, FALSE, NoGet, 1, FALSE))
                   ELSE IF PasswordVerify(pw, res.val[FieldPassword]) # ErrNil
                   THEN Return(MkLast(r, ErrInvalidLogin, GoNil, FALSE, NoGet, 1, FALSE))
                   ELSE IF res.val[FieldActive] # "true"
                   THEN Return(MkLast(r, ErrDeactivated, GoNil, FALSE, NoGet, 1, FALSE))
                   ELSE IF signFault
                   THEN Return(MkLast(r, Wrap("failed to generate tokens",
                                              ErrGenerateAccessToken),
                                      GoNil, FALSE, NoGet, 1, FALSE))
                   ELSE Enter(r)
                /\ UNCHANGED <<table, cache, nextId, tasks>>

\* auth service Login, from the Update of the last login to the return: the
\* rows of the email take the user's id as modified_by; no goroutine, no cache.
LoginWrite ==
    \E r \in InFlight, fault \in BOOLEAN :
        LET res == RepoUpdate(table, TransformFields(UpdateLastLoginRequestFields, r.actor),
                              EmailFilter(r.email), fault)
        IN  /\ r.op = "Login" /\ r.pc = "write"
            /\ Leave(r, MkLast(r, MutationReturn("failed to update last login", res.err),
                               GoNil, FALSE, NoGet, 2, res.err = ErrNil))
            /\ table' = res.table
            /\ hist' = [hist EXCEPT !.authWrote = @ \/ res.err = ErrNil]
            /\ UNCHANGED <<cache, nextId, tasks>>

\* auth service ChangePassword, up to the check of the current password.
StartChangePassword ==
    \E id \in Ids, cur \in Passwords, new \in {"pw2", LongPassword}, actor \in Editors,
       fault \in BOOLEAN :
        /\ hist.started < MaxReqs
        /\ \E res \in RepoGet(table, FilterByID(id, FieldID, TableName), fault) :
            LET r == MkReq("ChangePassword", "write", id, 0, "", "", new, actor)
            IN  /\ hist' = [hist EXCEPT !.started = @ + 1]
                /\ IF res.err # ErrNil
                   THEN Return(MkLast(r, Wrap("failed to get user", res.err),
                                      GoNil, FALSE, NoGet, 1, FALSE))
                   ELSE IF res.val[FieldID] = ""
                   THEN Return(MkLast(r, ErrNotFound, GoNil, FALSE, NoGet, 1, FALSE))
                   ELSE IF PasswordVerify(cur, res.val[FieldPassword]) # ErrNil
                   THEN Return(MkLast(r, ErrWrongPassword, GoNil, FALSE, NoGet, 1, FALSE))
                   ELSE Enter(r)
                /\ UNCHANGED <<table, cache, nextId, tasks>>

\* auth service ChangePassword, from password.Hash of the new password and the
\* Update statement to the return: no goroutine, no cache.
ChangePasswordWrite ==
    \E r \in InFlight, salt \in Salts, fault \in BOOLEAN :
        LET hashed == PasswordHash(r.pw, salt)
            res == RepoUpdate(table,
                              TransformFields(UpdatePasswordRequestFields(hashed.hash), r.actor),
                              FilterByID(r.id, FieldID, TableName), fault)
        IN  /\ r.op = "ChangePassword" /\ r.pc = "write"
            /\ IF hashed.err # ErrNil
               THEN /\ Leave(r, MkLast(r, Wrap("failed to hash new password", hashed.err),
                                       GoNil, FALSE, NoGet, 1, FALSE))
                    /\ UNCHANGED <<table, hist>>
               ELSE /\ Leave(r, MkLast(r, MutationReturn("failed to update password", res.err),
                                       GoNil, FALSE, NoGet, 2, res.err = ErrNil))
                    /\ table' = res.table
                    /\ hist' = [hist EXCEPT !.authWrote = @ \/ res.err = ErrNil]
            /\ UNCHANGED <<cache, nextId, tasks>>

\* The goroutine of a read: cache.Save of what the read returned.
TaskSave ==
    \E t \in Pending, fault \in BOOLEAN :
        LET res == CacheSave(cache, t.key, t.val, fault)
        IN  /\ t.kind = "save"
            /\ cache' = res.store
            /\ tasks' = tasks (-) One(t)
            /\ hist' = NoteFault(~res.err.isNil)
            /\ UNCHANGED <<table, reqs, nextId, last>>

\* What the invalidation goroutines log.
LogDeleteFailed == "failed to delete user from cache"
LogClearFailed(key) == "failed to clear cache for key: " \o key

\* The goroutine of Update and Delete: cache.Delete of the entity key; an error
\* is logged and the goroutine goes on.
TaskDelete ==
    \E t \in Pending, fault \in BOOLEAN :
        LET res == CacheDelete(cache, BuildCacheKey(cacheGetUser, t.id), fault)
            others == IF res.err.isNil
                      THEN Forget(tasks (-) One(t), BuildCacheKey(cacheGetUser, t.id))
                      ELSE tasks (-) One(t)
        IN  /\ t.kind = "inval" /\ t.pc = "del"
            /\ cache' = res.store
            /\ tasks' = others
                            (+) One([t EXCEPT !.pc = "scan1", !.fault = @ \/ ~res.err.isNil])
            /\ hist' = NoteLog(~res.err.isNil, LogDeleteFailed)
            /\ UNCHANGED <<table, reqs, nextId, last>>

\* The namespace an invalidation is clearing at `pc`.
ClearKey(pc) == IF pc \in {"scan1", "del1"} THEN cacheGetAllUser ELSE cacheCountUser

\* shared.InvalidateCaches once its Clear returned `failed`: the error is logged
\* and nothing is returned; the goroutine `t`, now `cur`, goes on to the next
\* InvalidateCaches or ends.  `others` are the other goroutines.
InvalidateCaches(others, t, cur, failed) ==
    LET task == [cur EXCEPT !.fault = @ \/ failed, !.c = NoClear]
        logged == NoteLog(failed, LogClearFailed(ClearKey(t.pc)))
    IN  IF t.pc \in {"scan1", "del1"}
        THEN /\ tasks' = others (+) One([task EXCEPT !.pc = "scan2"])
             /\ hist' = [logged EXCEPT !.cacheFault = @ \/ task.fault]
        ELSE /\ tasks' = others
             /\ hist' = [logged EXCEPT !.cacheFault = @ \/ task.fault]

\* The position of a Clear under way: a DEL while the page holds keys, else
\* the next SCAN.
ClearPc(pc, c) ==
    IF c.page # {} THEN (IF pc \in {"scan1", "del1"} THEN "del1" ELSE "del2")
    ELSE (IF pc \in {"scan1", "del1"} THEN "scan1" ELSE "scan2")

\* redisCache.Clear in the goroutine, one SCAN.
TaskScan ==
    \E t \in Pending, fault \in BOOLEAN :
        /\ t.kind = "inval" /\ t.pc \in {"scan1", "scan2"}
        /\ \E out \in ClearScan(cache, BuildCacheKey(ClearKey(t.pc), Asterix), t.c, fault) :
            LET seen == [t EXCEPT !.fault = @ \/ fault, !.c = out.c]
            IN  IF out.ret = "nil"
                THEN InvalidateCaches(tasks (-) One(t), t, seen, FALSE)
                ELSE /\ tasks' = (tasks (-) One(t))
                                    (+) One([seen EXCEPT !.pc = ClearPc(t.pc, out.c)])
                     /\ hist' = hist
        /\ UNCHANGED <<table, cache, reqs, nextId, last>>

\* redisCache.Clear in the goroutine, the DEL of one key of the page.
TaskClearDel ==
    \E t \in Pending, fault \in BOOLEAN :
        /\ t.kind = "inval" /\ t.pc \in {"del1", "del2"}
        /\ \E k \in t.c.page :
            LET out == ClearDel(cache, t.c, k, fault)
                others == IF out.ret = "err" THEN tasks (-) One(t)
                          ELSE Forget(tasks (-) One(t), k)
                cur == [t EXCEPT !.c = out.c]
            IN  /\ cache' = out.store
                /\ IF out.ret = "run"
                   THEN /\ tasks' = others (+) One([cur EXCEPT !.pc = ClearPc(t.pc, out.c)])
                        /\ hist' = hist
                   ELSE InvalidateCaches(others, t, cur, out.ret = "err")
        /\ UNCHANGED <<table, reqs, nextId, last>>

\* A cached entry reaches its TTL.
Expire ==
    \E k \in DOMAIN cache :
        /\ hist.expired < MaxExpiries
        /\ cache' = Drop(cache, k)
        /\ tasks' = Forget(tasks, k)
        /\ hist' = [hist EXCEPT !.expired = @ + 1]
        /\ UNCHANGED <<table, reqs, nextId, last>>

Next ==
    \/ StartGet \/ GetDb
    \/ StartCount \/ CountDb
    \/ StartGetAll \/ GetAllCount \/ GetAllDb
    \/ StartCreate \/ CreateInsert
    \/ StartUpdate \/ UpdateWrite
    \/ StartDelete \/ DeleteWrite
    \/ StartRegister \/ RegisterInsert
    \/ StartLogin \/ LoginWrite
    \/ StartChangePassword \/ ChangePasswordWrite
    \/ TaskSave \/ TaskDelete \/ TaskScan \/ TaskClearDel
    \/ Expire

Spec == Init /\ [][Next]_vars

---------------------------------------------------------------------------
(* The cache wrapper called directly: SpecCache.  `hist.saved` remembers,   *)
(* per key, the value of the latest Save that succeeded and that no DEL has *)
(* removed since.  A Clear is one SCAN or DEL a step; Save, Get and Delete  *)
(* are one command each and run between the steps of a Clear.               *)

cacheJwtBlacklistPrefix == "jwt:blacklist"
cacheJwtRevokedValue == "revoked"

CallKeys ==
    {BuildCacheKey(cacheJwtBlacklistPrefix, "t1")}
        \cup {BuildCacheKey(cacheGetUser, id) : id \in Ids}
\* The patterns InvalidateCaches builds.
ClearPatterns ==
    {BuildCacheKey(cacheGetUser, Asterix), BuildCacheKey(cacheGetAllUser, Asterix)}
CallValues ==
    {GoStr(cacheJwtRevokedValue), GoStr("1"), GoInt(1), GoInt(MaxIds),
     UserResponseFromModel(Row1), GoChan}
DestTypes == {"string", "int", "UserResponse"}

MkCall(op, key, value, destT, err, dest, present, fault) ==
    [op |-> op, key |-> key, value |-> value, destT |-> destT, err |-> err, dest |-> dest,
     present |-> present, fault |-> fault]

InitCache ==
    /\ table = {} /\ nextId = 0 /\ reqs = EmptyBag /\ tasks = EmptyBag
    /\ cache = EmptyMap
    /\ hist = [saved |-> EmptyMap]
    /\ last = MkCall("", "", GoNil, "", NoErr, GoNil, FALSE, FALSE)

SaveCall ==
    \E key \in CallKeys, value \in CallValues, fault \in BOOLEAN :
        LET res == CacheSave(cache, key, value, fault)
        IN  /\ cache' = res.store
            /\ hist' = IF res.err.isNil THEN [hist EXCEPT !.saved = (key :> value) @@ @]
                       ELSE hist
            /\ last' = MkCall("Save", key, value, "", res.err, GoNil,
                              key \in DOMAIN cache, fault)
            /\ UNCHANGED <<table, reqs, tasks, nextId>>

GetCall ==
    \E key \in CallKeys, destT \in DestTypes, fault \in BOOLEAN :
        LET res == CacheGet(cache, key, destT, fault)
        IN  /\ last' = MkCall("Get", key, GoNil, destT, res.err, res.dest,
                              key \in DOMAIN cache, fault)
            /\ UNCHANGED <<table, cache, reqs, tasks, nextId, hist>>

DeleteCall ==
    \E key \in CallKeys, fault \in BOOLEAN :
        LET res == CacheDelete(cache, key, fault)
        IN  /\ cache' = res.store
            /\ reqs' = IF res.err.isNil THEN Forget(reqs, key) ELSE reqs
            /\ hist' = IF res.err.isNil THEN [hist EXCEPT !.saved = Drop(@, key)] ELSE hist
            /\ last' = MkCall("Delete", key, GoNil, "", res.err, GoNil,
                              key \in DOMAIN cache, fault)
            /\ UNCHANGED <<table, tasks, nextId>>

\* A Clear under way: `matched` are the keys that matched when the call
\* started, `failed` whether a command of the call failed.
MkClear(prefix, matched, c, failed) ==
    [op |-> "Clear", key |-> prefix, matched |-> matched, c |-> c, failed |-> failed]
ClearReturned(r, err) ==
    [op |-> "Clear", key |-> r.key, err |-> err, matched |-> r.matched, failed |-> r.failed]

\* Clear called with a pattern, up to the reply of its first SCAN.
ClearCall ==
    \E prefix \in ClearPatterns, fault \in BOOLEAN :
        /\ BagCardinality(reqs) < MaxClears
        /\ \E out \in ClearScan(cache, prefix, NoClear, fault) :
            LET r == MkClear(prefix, ScanKeys(cache, prefix), out.c, fault)
            IN  IF out.ret = "nil" THEN Return(ClearReturned(r, NoErr)) ELSE Enter(r)
        /\ UNCHANGED <<table, cache, tasks, nextId, hist>>

\* A later SCAN of a Clear under way.
ClearScanCall ==
    \E r \in InFlight, fault \in BOOLEAN :
        /\ r.c.page = {}
        /\ \E out \in ClearScan(cache, r.key, r.c, fault) :
            LET cur == [r EXCEPT !.c = out.c, !.failed = @ \/ fault]
            IN  IF out.ret = "nil" THEN Leave(r, ClearReturned(cur, NoErr)) ELSE Move(r, cur)
        /\ UNCHANGED <<table, cache, tasks, nextId, hist>>

\* One DEL of a Clear under way.
ClearDelCall ==
    \E r \in InFlight, fault \in BOOLEAN :
        \E k \in r.c.page :
            LET out == ClearDel(cache, r.c, k, fault)
                others == IF out.ret = "err" THEN reqs (-) One(r)
                          ELSE Forget(reqs (-) One(r), k)
                cur == [r EXCEPT !.c = out.c, !.failed = @ \/ fault]
            IN  /\ cache' = out.store
                /\ hist' = IF out.ret = "err" THEN hist
                           ELSE [hist EXCEPT !.saved = Drop(@, k)]
                /\ IF out.ret = "run"
                   THEN reqs' = others (+) One(cur) /\ last' = last
                   ELSE reqs' = others /\ last' = ClearReturned(cur, out.err)
                /\ UNCHANGED <<table, tasks, nextId>>

NextCache == SaveCall \/ GetCall \/ DeleteCall \/ ClearCall \/ ClearScanCall \/ ClearDelCall

SpecCache == InitCache /\ [][NextCache]_vars

---------------------------------------------------------------------------
(* The repository called directly: SpecRepo.                                *)

Row2 ==
    CreateUserRequestToModel("2", "2", "b@x", "", ContextGuest,
                             PasswordHash("pw1", "s1").hash)

\* Filters a caller may pass: by id, by email, no child, a child that is neither
\* a Filter nor a FilterGroup, an unknown operator, a nested group with no child.
CallFilters ==
    {FilterByID(id, FieldID, TableName) : id \in Ids \cup {"9"}}
        \cup {EmailFilter("a@x"),
              MkGroup(<<>>, FilterGroupOperatorAnd),
              MkGroup(<<MkOther>>, FilterGroupOperatorAnd),
              MkGroup(<<MkFilter("", FieldID, GoStr("1"), "between", TableName)>>, ""),
              MkGroup(<<MkGroup(<<>>, FilterGroupOperatorOr)>>, FilterGroupOperatorAnd)}

MkRepoCall(op, filter, res, before, fault) ==
    [op |-> op, filter |-> filter, err |-> res.err, val |-> res.val, handle |-> res.handle,
     where |-> res.where, before |-> before, fault |-> fault]

InitRepo ==
    /\ table \in {{}, {Row1}, {Row1, Row2}}
    /\ nextId = Cardinality(table)
    /\ cache = EmptyMap /\ reqs = EmptyBag /\ tasks = EmptyBag
    /\ hist = EmptyMap
    /\ last = MkRepoCall("", MkGroup(<<>>, ""), RepoResult(ErrNil, FALSE, {}, "none", ""),
                         {}, FALSE)

\* One call of a repository method that returns one result.
RepoCalled(op, filter, res, fault) ==
    /\ table' = res.table
    /\ last' = MkRepoCall(op, filter, res, table, fault)
    /\ UNCHANGED <<cache, reqs, tasks, nextId, hist>>

ExistCall ==
    \E filter \in CallFilters, fault \in BOOLEAN :
        RepoCalled("Exist", filter, RepoExist(table, filter, fault), fault)

RepoGetCall ==
    \E filter \in CallFilters, fault \in BOOLEAN :
        \E res \in RepoGet(table, filter, fault) : RepoCalled("Get", filter, res, fault)

RepoDeleteCall ==
    \E filter \in CallFilters, fault \in BOOLEAN :
        RepoCalled("Delete", filter, RepoDelete(table, filter, fault), fault)

RepoDeleteTxCall ==
    \E filter \in CallFilters, fault \in BOOLEAN :
        RepoCalled("DeleteTx", filter, RepoDeleteTx(table, filter, fault), fault)

\* The field maps a caller may pass to Update: one column, another column, none.
CallMods ==
    {MapOf(FieldLevel, GoStr("2")), MapOf(FieldEmail, GoStr("c@x")), EmptyMap}

\* One call of update through Update or UpdateTx; `mod` is the field map.
UpdateCalled(op, mod, filter, res, fault) ==
    /\ table' = res.table
    /\ last' = [mod |-> mod] @@ MkRepoCall(op, filter, res, table, fault)
    /\ UNCHANGED <<cache, reqs, tasks, nextId, hist>>

RepoUpdateCall ==
    \E mod \in CallMods, filter \in CallFilters, fault \in BOOLEAN :
        UpdateCalled("Update", mod, filter, RepoUpdate(table, mod, filter, fault), fault)

RepoUpdateTxCall ==
    \E mod \in CallMods, filter \in CallFilters, fault \in BOOLEAN :
        UpdateCalled("UpdateTx", mod, filter, RepoUpdateTx(table, mod, filter, fault), fault)

\* The queries a caller may pass to GetAll: pages and limits below, at and above
\* zero, ordered by id, and one query without an ordering.
CallParams ==
    {MkParams(page, limit, FieldID, "DESC") : page \in (-1)..MaxPage, limit \in (-1)..2}
        \cup {MkParams(1, 2, "", "")}
GetAllFilters ==
    {MkGroup(<<>>, FilterGroupOperatorAnd), FilterByID("1", FieldID, TableName)}

\* One call of GetAll; `query` is the statement it prepared.
RepoGetAllCall ==
    \E params \in CallParams, filter \in GetAllFilters, fault \in BOOLEAN :
        \E res \in RepoGetAll(table, params, filter, fault) :
            /\ table' = res.table
            /\ last' = [params |-> params, query |-> GetAllQuery(params, filter)]
                           @@ MkRepoCall("GetAll", filter, res, table, fault)
            /\ UNCHANGED <<cache, reqs, tasks, nextId, hist>>

RepoCountCall ==
    \E filter \in GetAllFilters, fault \in BOOLEAN :
        RepoCalled("Count", filter, RepoCount(table, filter, fault), fault)

\* One call of an insert method; `models` are the entities passed.
InsertCalled(op, models, res, fault) ==
    /\ table' = res.table
    /\ last' = [models |-> models] @@ MkRepoCall(op, MkGroup(<<>>, ""), res, table, fault)
    /\ UNCHANGED <<cache, reqs, tasks, nextId, hist>>

RepoInsertCall ==
    \E model \in {Row1, Row2}, fault \in BOOLEAN :
        InsertCalled("Insert", <<model>>, RepoInsert(table, model, fault), fault)

RepoInsertTxCall ==
    \E model \in {Row1, Row2}, fault \in BOOLEAN :
        InsertCalled("InsertTx", <<model>>, RepoInsertTx(table, model, fault), fault)

\* The slices a caller may pass to InsertBulk: none, one or both of the rows.
CallSlices == {<<>>, <<Row1>>, <<Row2>>, <<Row1, Row2>>}

RepoInsertBulkCall ==
    \E models \in CallSlices, fault \in BOOLEAN :
        InsertCalled("InsertBulk", models, RepoInsertBulk(table, models, fault), fault)

RepoInsertBulkTxCall ==
    \E models \in CallSlices, fault \in BOOLEAN :
        InsertCalled("InsertBulkTx", models, RepoInsertBulkTx(table, models, fault), fault)

NextRepo ==
    \/ ExistCall \/ RepoGetCall \/ RepoDeleteCall \/ RepoDeleteTxCall
    \/ RepoUpdateCall \/ RepoUpdateTxCall \/ RepoGetAllCall \/ RepoCountCall
    \/ RepoInsertCall \/ RepoInsertTxCall \/ RepoInsertBulkCall \/ RepoInsertBulkTxCall

SpecRepo == InitRepo /\ [][NextRepo]_vars

---------------------------------------------------------------------------
(* The helpers of package shared called directly: SpecShared.               *)

\* The query parameters and the filters of the listing queries compared: every
\* field of QueryParams, of Filter and of FilterGroup takes two values, and two
\* filters hold a channel, which json.Marshal rejects.
KeyParams ==
    {MkParams(page, limit, sortBy, sortDir) :
        page \in 1..MaxPage, limit \in {DefaultValueLimit, DefaultValueLimit + 1},
        sortBy \in {FieldID, FieldEmail}, sortDir \in {"ASC", "DESC"}}
KeyFilters ==
    {MkGroup(<<>>, op) : op \in {FilterGroupOperatorAnd, FilterGroupOperatorOr}}
        \cup {EmailFilter(e) : e \in Emails}
        \cup {MkGroup(<<MkFilter("e", FieldEmail, GoStr("a@x"), FilterOperatorEq, TableName)>>, ""),
              MkGroup(<<MkFilter("", FieldLevel, GoStr("a@x"), FilterOperatorEq, TableName)>>, ""),
              MkGroup(<<MkFilter("", FieldLevel, GoStr("1"), FilterOperatorEq, TableName)>>, ""),
              MkGroup(<<MkFilter("", FieldLevel, GoInt(1), FilterOperatorEq, TableName)>>, ""),
              MkGroup(<<MkFilter("", FieldEmail, GoStr("a@x"), FilterOperatorLike, TableName)>>, ""),
              MkGroup(<<MkFilter("", FieldEmail, GoStr("a@x"), FilterOperatorEq, "")>>, ""),
              MkGroup(<<EmailFilter("a@x")>>, FilterGroupOperatorAnd),
              MkGroup(<<MkFilter("", FieldEmail, GoChan, FilterOperatorEq, "")>>, ""),
              MkGroup(<<MkFilter("", FieldLevel, GoChan, FilterOperatorEq, "")>>, "")}

\* The calls to make: `last` holds the arguments, and `op` names the function
\* once it has returned.
KeyInputs ==
    {[op |-> "", call |-> "BuildCacheKeyWithQuery", key |-> key,
      params1 |-> p1, filter1 |-> f1, params2 |-> p2, filter2 |-> f2] :
        key \in {cacheGetAllUser, cacheCountUser}, p1 \in KeyParams, p2 \in KeyParams,
        f1 \in KeyFilters, f2 \in KeyFilters}

\* Totals and limits below, at and above zero.
PageInputs ==
    {[op |-> "", call |-> "CalculateTotalPage", total |-> total, limit |-> limit] :
        total \in (-MaxTotal)..MaxTotal, limit \in (-1)..MaxTotal}

InitShared ==
    /\ table = {} /\ nextId = 0 /\ reqs = EmptyBag /\ tasks = EmptyBag
    /\ cache = EmptyMap /\ hist = EmptyMap
    /\ last \in KeyInputs \cup PageInputs

\* Two listing queries under one namespace get their cache keys.
KeyCall ==
    /\ last.op = "" /\ last.call = "BuildCacheKeyWithQuery"
    /\ last' = [op |-> last.call, key |-> last.key,
                params1 |-> last.params1, filter1 |-> last.filter1,
                key1 |-> BuildCacheKeyWithQuery(last.key, last.params1, last.filter1),
                params2 |-> last.params2, filter2 |-> last.filter2,
                key2 |-> BuildCacheKeyWithQuery(last.key, last.params2, last.filter2)]
    /\ UNCHANGED <<table, cache, reqs, tasks, nextId, hist>>

\* The number of pages of a listing is computed.
TotalPageCall ==
    /\ last.op = "" /\ last.call = "CalculateTotalPage"
    /\ last' = [op |-> last.call, total |-> last.total, limit |-> last.limit,
                res |-> CalculateTotalPage(last.total, last.limit)]
    /\ UNCHANGED <<table, cache, reqs, tasks, nextId, hist>>

NextShared == KeyCall \/ TotalPageCall

SpecShared == InitShared /\ [][NextShared]_vars

---------------------------------------------------------------------------
(* The column mapper of the repository called directly: SpecColumns.       *)

\* A field of an entity struct: its db, table and column tags, whether it is
\* embedded (anonymous) and, for an embedded struct, the fields of that struct.
MkField(db, tbl, col, anon, fields) ==
    [db |-> db, table |-> tbl, column |-> col, anon |-> anon, fields |-> fields]

RECURSIVE GetColumns(_, _)
\* repository.getColumns: the columns and the insert columns of a struct type,
\* in field order; an embedded struct contributes its own first.
GetColumns(tbl, fields) ==
    IF Len(fields) = 0 THEN [columns |-> <<>>, insert |-> <<>>]
    ELSE LET field == fields[1]
             tableField == IF field.table = "" THEN tbl ELSE field.table
             inner == IF field.anon THEN GetColumns(tbl, field.fields)
                      ELSE [columns |-> <<>>, insert |-> <<>>]
             own == IF field.db = "" THEN [columns |-> <<>>, insert |-> <<>>]
                    ELSE [columns |->
                              IF field.column = ""
                              THEN <<[name |-> field.db, table |-> tableField, alias |-> ""]>>
                              ELSE <<[name |-> field.column, table |-> tableField,
                                      alias |-> field.db]>>,
                          insert |-> IF tableField = tbl THEN <<field.db>> ELSE <<>>]
             rest == GetColumns(tbl, Tail(fields))
         IN  [columns |-> inner.columns \o own.columns \o rest.columns,
              insert |-> inner.insert \o own.insert \o rest.insert]

\* shared/model.Metadata: two fields with a db tag (the timestamps have none).
Metadata ==
    <<MkField("", "", "", FALSE, <<>>), MkField("created_by", "", "", FALSE, <<>>),
      MkField(FieldModifiedBy, "", "", FALSE, <<>>)>>

\* The fields the struct types are made of: every combination of a db tag, a
\* table tag and a column tag, and two embedded structs.
StructFields ==
    {MkField(db, tbl, col, FALSE, <<>>) :
        db \in {"", FieldID, FieldEmail}, tbl \in {"", "roles"}, col \in {"", "name"}}
        \cup {MkField("", "", "", TRUE, Metadata),
              MkField("", "", "", TRUE, <<MkField(FieldID, "", "", FALSE, <<>>)>>)}
StructTypes == UNION {[1..n -> StructFields] : n \in 0..MaxFields}

InitColumns ==
    /\ table = {} /\ nextId = 0 /\ reqs = EmptyBag /\ tasks = EmptyBag
    /\ cache = EmptyMap /\ hist = EmptyMap
    /\ last \in {[op |-> "", type |-> type] : type \in StructTypes}

\* NewRepository maps the struct type in `last` to its columns.
GetColumnsCall ==
    /\ last.op = ""
    /\ \E c \in {GetColumns(TableName, last.type)} :
          last' = [op |-> "getColumns", type |-> last.type,
                   columns |-> c.columns, insert |-> c.insert]
    /\ UNCHANGED <<table, cache, reqs, tasks, nextId, hist>>

NextColumns == GetColumnsCall

SpecColumns == InitColumns /\ [][NextColumns]_vars

---------------------------------------------------------------------------
(* The filter DSL called directly: SpecFilter.                              *)

\* A slice of n distinct strings.
SliceOf(n) == GoSlice([i \in 1..n |-> GoStr(ToString(i))])

\* The single filters compiled: every operator of the DSL, one unknown operator
\* and the empty one; nil, scalar and slice values.
CompileOperators == KnownOperators \cup {"between", ""}
CompileValues == {GoNil, GoStr("1"), GoInt(1)} \cup {SliceOf(n) : n \in 0..MaxLen}
CompileFilters ==
    {MkFilter(argName, field, value, operator, tbl) :
        argName \in {"", "a"}, field \in {FieldID, FieldEmail}, value \in CompileValues,
        operator \in CompileOperators, tbl \in {"", TableName}}

\* The children the groups are made of: four filters with four argument names,
\* a second filter on id, an unknown operator, an `in` over nil, and an element
\* that is neither a Filter nor a FilterGroup.
FilterA == MkFilter("", FieldID, GoStr("1"), FilterOperatorEq, "")
FilterB == MkFilter("", FieldEmail, GoStr("a@x"), FilterOperatorEq, "")
FilterC == MkFilter("", FieldLevel, GoStr("1"), FilterOperatorEq, "")
FilterD == MkFilter("", FieldModifiedBy, GoStr("admin"), FilterOperatorNotEq, "")
FilterA2 == MkFilter("", FieldID, GoStr("2"), FilterOperatorEq, "")
FilterUnknown == MkFilter("", FieldID, GoStr("1"), "between", "")
FilterInNil == MkFilter("", FieldID, GoNil, FilterOperatorIn, "")
GroupLeaves ==
    {FilterA, FilterB, FilterC, FilterD, FilterA2, FilterUnknown, FilterInNil, MkOther}
GroupOperators == {FilterGroupOperatorAnd, FilterGroupOperatorOr}

\* The sequences over `elems` of `lo` to `hi` elements.
SeqsOf(elems, lo, hi) == UNION {[1..n -> elems] : n \in lo..hi}

\* Groups of filters, groups of groups, and groups three levels deep.
FlatGroups ==
    {MkGroup(fs, op) : fs \in SeqsOf(GroupLeaves, 0, MaxWidth), op \in GroupOperators}
PairGroups ==
    {MkGroup(<<x, y>>, op) :
        x \in {FilterA, FilterB}, y \in {FilterC, FilterD, FilterUnknown},
        op \in GroupOperators}
NestedGroups ==
    {MkGroup(fs, op) :
        fs \in SeqsOf(PairGroups \cup {MkGroup(<<>>, FilterGroupOperatorAnd),
                                        FilterA, FilterUnknown}, 1, MaxWidth),
        op \in GroupOperators}
DeepGroups ==
    {MkGroup(<<MkGroup(<<g, FilterA>>, FilterGroupOperatorOr)>>, op) :
        g \in PairGroups, op \in GroupOperators}
CompileGroups == FlatGroups \cup NestedGroups \cup DeepGroups

\* The requests FromRequest reads: each parameter absent, valid or invalid, into
\* fresh QueryParams or into QueryParams that already hold values.
RequestQueries ==
    [{RequestParamPage} -> {"", "2", "0", "-1", "x", "99999999999999999999"}]
        \X [{RequestParamLimit} -> {"", "20", "0", "x"}]
        \X [{RequestParamSortBy} -> {"", "email", "ASC"}]
        \X [{RequestParamSortDir} -> {"", "ASC", "DESC", "up"}]
RequestInputs ==
    {[op |-> "", call |-> "FromRequest", q |-> q,
      query |-> rq[1] @@ rq[2] @@ rq[3] @@ rq[4], defaultRequest |-> d] :
        q \in {MkParams(0, 0, "", ""), MkParams(3, 5, FieldID, "ASC")},
        rq \in RequestQueries, d \in BOOLEAN}

InitFilter ==
    /\ table = {} /\ nextId = 0 /\ reqs = EmptyBag /\ tasks = EmptyBag
    /\ cache = EmptyMap /\ hist = EmptyMap
    /\ last \in {[op |-> "", call |-> "GetWhereClause", node |-> node] :
                    node \in CompileFilters \cup CompileGroups}
                \cup RequestInputs

\* GetWhereClause has returned (or panicked) for the node in `last`.
Compiled(op, c) ==
    /\ last' = [op |-> op, node |-> last.node, where |-> c.where, args |-> c.args,
                panic |-> c.panic]
    /\ UNCHANGED <<table, cache, reqs, tasks, nextId, hist>>

FilterCompile ==
    /\ last.op = "" /\ last.call = "GetWhereClause" /\ last.node.kind = "filter"
    /\ \E c \in {FilterWhere(last.node)} : Compiled("Filter.GetWhereClause", c)

GroupCompile ==
    /\ last.op = "" /\ last.call = "GetWhereClause" /\ last.node.kind = "group"
    /\ \E c \in {GroupWhere(last.node)} : Compiled("FilterGroup.GetWhereClause", c)

\* FromRequest fills the QueryParams in `last` from the request in `last`.
FromRequestCall ==
    /\ last.op = "" /\ last.call = "FromRequest"
    /\ last' = [op |-> "FromRequest", q |-> last.q, query |-> last.query,
                defaultRequest |-> last.defaultRequest,
                res |-> FromRequest(last.q, last.query, last.defaultRequest)]
    /\ UNCHANGED <<table, cache, reqs, tasks, nextId, hist>>

NextFilter == FilterCompile \/ GroupCompile \/ FromRequestCall

SpecFilter == InitFilter /\ [][NextFilter]_vars

---------------------------------------------------------------------------
(* The JWT service (infras/jwt) over the cache, called directly: SpecJwt.   *)
(* Calls run concurrently, one cache command a step.  The calls happen      *)
(* within the lifetime of every token issued: no token and no key of the    *)
(* service expires.  `hist.issued` are the tokens handed to callers,        *)
(* `hist.cut` those a user held when a RevokeAllUserTokens of that user     *)
(* that returned nil began, `hist.calls` the calls begun that write.        *)

AccessToken == "access"
RefreshToken == "refresh"
TokenTypes == {AccessToken, RefreshToken}
cacheJwtUserPrefix == "jwt:user"

ErrInvalidToken == "invalid token"
ErrInvalidClaim == "invalid token claim"
ErrUnknownTokenType == "unknown token type"
ErrCacheOperationFailed == "cache operation failed"

\* The secret the configuration holds for a token type.
JwtSecret(tokenType) == tokenType \o "-secret"

\* Service.generateToken: the claims, signed with the secret of the type.
GenerateToken(userID, tokenID, tokenType) ==
    [UserID |-> userID, TokenID |-> tokenID, Type |-> tokenType,
     secret |-> JwtSecret(tokenType)]
NoClaims == [UserID |-> "", TokenID |-> "", Type |-> ""]
ClaimsOf(token) == [UserID |-> token.UserID, TokenID |-> token.TokenID, Type |-> token.Type]

\* Service.storeTokenMetadata
StoreTokenMetadata(store, userID, tokenID, tokenType, fault) ==
    LET res == CacheSave(store, BuildCacheKey(cacheJwtUserPrefix, userID \o ":" \o tokenID),
                         GoStr(tokenID \o ":" \o tokenType), fault)
    IN  [err |-> IF res.err.isNil THEN ErrNil ELSE ErrCacheOperationFailed,
         store |-> res.store]

\* Service.IsTokenRevoked
IsTokenRevoked(store, tokenID, fault) ==
    LET check(got) ==
            IF ~got.err.isNil
            THEN IF ErrorsIsCacheNil(got.err)
                 THEN [revoked |-> FALSE, err |-> ErrNil]
                 ELSE [revoked |-> FALSE, err |-> ErrCacheOperationFailed]
            ELSE [revoked |-> TRUE, err |-> ErrNil]
    IN  check(CacheGet(store, BuildCacheKey(cacheJwtBlacklistPrefix, tokenID), "string", fault))

\* Service.ValidateToken: the secret of the type verifies the signature, the
\* type claim is compared, the blacklist is read.
ValidateToken(store, token, tokenType, fault) ==
    LET check(rev) ==
            IF rev.err # ErrNil THEN [claims |-> NoClaims, err |-> ErrCacheOperationFailed]
            ELSE IF rev.revoked THEN [claims |-> NoClaims, err |-> ErrInvalidToken]
            ELSE [claims |-> ClaimsOf(token), err |-> ErrNil]
    IN  IF tokenType \notin TokenTypes THEN [claims |-> NoClaims, err |-> ErrUnknownTokenType]
        ELSE IF token.secret # JwtSecret(tokenType)
        THEN [claims |-> NoClaims, err |-> ErrInvalidToken]
        ELSE IF token.Type # tokenType THEN [claims |-> NoClaims, err |-> ErrInvalidClaim]
        ELSE check(IsTokenRevoked(store, token.TokenID, fault))

\* Service.RevokeToken, its two commands: the Save of the blacklist key (the
\* token has lifetime left) and the Delete of the user's token key.
RevokeTokenSave(store, token, fault) ==
    CacheSave(store, BuildCacheKey(cacheJwtBlacklistPrefix, token.TokenID),
              GoStr(cacheJwtRevokedValue), fault)
RevokeTokenDelete(store, token, fault) ==
    CacheDelete(store, BuildCacheKey(cacheJwtUserPrefix,
                                     token.UserID \o ":" \o token.TokenID), fault)

\* The pattern RevokeAllUserTokens clears.
UserTokensPattern(userID) == BuildCacheKey(cacheJwtUserPrefix, userID \o ":" \o Asterix)

\* The ids uuid.New hands out: never one twice.
TokenID(n) == "t" \o ToString(n)

\* A call of the service under way, at the command `pc`: "store1" and "store2"
\* are the Saves of GenerateTokenPair, "blacklist" and "unlist" the Save and
\* the Delete of RevokeToken, "clear" the Clear of RevokeAllUserTokens.
\* `before` are the tokens the user held when a RevokeAllUserTokens began.
NoToken == [UserID |-> "", TokenID |-> "", Type |-> "", secret |-> ""]
JwtCall(op, pc, userID, token, accessID, refreshID) ==
    [op |-> op, pc |-> pc, userID |-> userID, token |-> token, accessID |-> accessID,
     refreshID |-> refreshID, c |-> NoClear, before |-> {}]
JwtReturned(r, err, pair) ==
    [op |-> r.op, userID |-> r.userID, token |-> r.token, err |-> err, pair |-> pair]

InitJwt ==
    /\ table = {} /\ nextId = 0 /\ reqs = EmptyBag /\ tasks = EmptyBag
    /\ cache = EmptyMap
    /\ hist = [issued |-> {}, cut |-> {}, calls |-> 0]
    /\ last = [op |-> ""]

\* One more call of the service has begun.
Called == [hist EXCEPT !.calls = @ + 1]

\* A call returned a token pair.
Issue(pair) == [hist EXCEPT !.issued = @ \cup {pair[i] : i \in 1..Len(pair)}]

\* Service.GenerateTokenPair, from the two generateToken calls to the Save of
\* the access token's key.
GenerateTokenPairCall ==
    \E userID \in Ids, fault \in BOOLEAN :
        LET r == JwtCall("GenerateTokenPair", "store2", userID, NoToken,
                         TokenID(nextId + 1), TokenID(nextId + 2))
            res == StoreTokenMetadata(cache, userID, r.accessID, AccessToken, fault)
        IN  /\ nextId < 2 * MaxPairs /\ BagCardinality(reqs) < MaxJwtCalls /\ hist.calls < MaxJwtOps
            /\ nextId' = nextId + 2
            /\ cache' = res.store
            /\ IF res.err # ErrNil
               THEN Return(JwtReturned(r, ErrCacheOperationFailed, <<>>))
               ELSE Enter(r)
            /\ hist' = Called
            /\ UNCHANGED <<table, tasks>>

\* RefreshTokens' GenerateTokenPair, the Save of the access token's key.
GenerateTokenPairStoreAccess ==
    \E r \in InFlight, fault \in BOOLEAN :
        LET res == StoreTokenMetadata(cache, r.userID, r.accessID, AccessToken, fault)
        IN  /\ r.pc = "store1"
            /\ cache' = res.store
            /\ IF res.err # ErrNil
               THEN Leave(r, JwtReturned(r, ErrCacheOperationFailed, <<>>))
               ELSE Move(r, [r EXCEPT !.pc = "store2"])
            /\ UNCHANGED <<table, tasks, nextId, hist>>

\* Service.GenerateTokenPair, from the Save of the refresh token's key to the
\* return.
GenerateTokenPairStoreRefresh ==
    \E r \in InFlight, fault \in BOOLEAN :
        LET res == StoreTokenMetadata(cache, r.userID, r.refreshID, RefreshToken, fault)
            pair == <<GenerateToken(r.userID, r.accessID, AccessToken),
                      GenerateToken(r.userID, r.refreshID, RefreshToken)>>
        IN  /\ r.pc = "store2"
            /\ cache' = res.store
            /\ IF res.err # ErrNil
               THEN /\ Leave(r, JwtReturned(r, ErrCacheOperationFailed, <<>>))
                    /\ hist' = hist
               ELSE /\ Leave(r, JwtReturned(r, ErrNil, pair))
                    /\ hist' = Issue(pair)
            /\ UNCHANGED <<table, tasks, nextId>>

\* Service.ValidateToken: one Get.
ValidateTokenCall ==
    \E token \in hist.issued, tokenType \in TokenTypes \cup {"id"}, fault \in BOOLEAN :
        LET res == ValidateToken(cache, token, tokenType, fault)
        IN  /\ last' = [op |-> "ValidateToken", token |-> token, tokenType |-> tokenType,
                        err |-> res.err, claims |-> res.claims, fault |-> fault]
            /\ UNCHANGED <<table, cache, reqs, tasks, nextId, hist>>

\* Service.RevokeToken, up to the Save of the blacklist key.
RevokeTokenCall ==
    \E token \in hist.issued, fault \in BOOLEAN :
        LET r == JwtCall("RevokeToken", "unlist", token.UserID, token, "", "")
            res == RevokeTokenSave(cache, token, fault)
        IN  /\ BagCardinality(reqs) < MaxJwtCalls /\ hist.calls < MaxJwtOps
            /\ cache' = res.store
            /\ IF ~res.err.isNil
               THEN Return(JwtReturned(r, ErrCacheOperationFailed, <<>>))
               ELSE Enter(r)
            /\ hist' = Called
            /\ UNCHANGED <<table, tasks, nextId>>

\* RefreshTokens' RevokeToken, the Save of the blacklist key.
RevokeTokenBlacklist ==
    \E r \in InFlight, fault \in BOOLEAN :
        LET res == RevokeTokenSave(cache, r.token, fault)
        IN  /\ r.pc = "blacklist"
            /\ cache' = res.store
            /\ IF ~res.err.isNil
               THEN Leave(r, JwtReturned(r, ErrCacheOperationFailed, <<>>))
               ELSE Move(r, [r EXCEPT !.pc = "unlist"])
            /\ UNCHANGED <<table, tasks, nextId, hist>>

\* Service.RevokeToken, the Delete of the user's token key: RevokeToken
\* returns, RefreshTokens goes on to GenerateTokenPair.
RevokeTokenUnlist ==
    \E r \in InFlight, fault \in BOOLEAN :
        LET res == RevokeTokenDelete(cache, r.token, fault)
            others == IF res.err.isNil
                      THEN Forget(reqs (-) One(r),
                                  BuildCacheKey(cacheJwtUserPrefix,
                                                r.token.UserID \o ":" \o r.token.TokenID))
                      ELSE reqs (-) One(r)
        IN  /\ r.pc = "unlist"
            /\ cache' = res.store
            /\ IF ~res.err.isNil
               THEN reqs' = others /\ last' = JwtReturned(r, ErrCacheOperationFailed, <<>>)
               ELSE IF r.op = "RevokeToken"
               THEN reqs' = others /\ last' = JwtReturned(r, ErrNil, <<>>)
               ELSE reqs' = others (+) One([r EXCEPT !.pc = "store1"]) /\ last' = last
            /\ UNCHANGED <<table, tasks, nextId, hist>>

\* RevokeAllUserTokens returned `err`.
RevokeAllReturned(r, err, h) ==
    /\ last' = JwtReturned(r, err, <<>>)
    /\ hist' = IF err = ErrNil THEN [h EXCEPT !.cut = @ \cup r.before] ELSE h

\* Service.RevokeAllUserTokens, up to the reply of the first SCAN of its Clear.
RevokeAllUserTokensCall ==
    \E userID \in Ids, fault \in BOOLEAN :
        /\ BagCardinality(reqs) < MaxJwtCalls /\ hist.calls < MaxJwtOps
        /\ \E out \in ClearScan(cache, UserTokensPattern(userID), NoClear, fault) :
            LET r == [JwtCall("RevokeAllUserTokens", "clear", userID, NoToken, "", "")
                        EXCEPT !.c = out.c,
                               !.before = {t \in hist.issued : t.UserID = userID}]
            IN  IF out.ret = "nil"
                THEN reqs' = reqs /\ RevokeAllReturned(r, ErrNil, Called)
                ELSE Enter(r) /\ hist' = Called
        /\ UNCHANGED <<table, cache, tasks, nextId>>

\* Service.RevokeAllUserTokens, a later SCAN of its Clear.
RevokeAllUserTokensScan ==
    \E r \in InFlight, fault \in BOOLEAN :
        /\ r.pc = "clear" /\ r.c.page = {}
        /\ \E out \in ClearScan(cache, UserTokensPattern(r.userID), r.c, fault) :
            IF out.ret = "nil"
            THEN reqs' = reqs (-) One(r) /\ RevokeAllReturned(r, ErrNil, hist)
            ELSE Move(r, [r EXCEPT !.c = out.c]) /\ hist' = hist
        /\ UNCHANGED <<table, cache, tasks, nextId>>

\* Service.RevokeAllUserTokens, one DEL of its Clear.
RevokeAllUserTokensDel ==
    \E r \in InFlight, fault \in BOOLEAN :
        /\ r.pc = "clear"
        /\ \E k \in r.c.page :
            LET out == ClearDel(cache, r.c, k, fault)
                others == IF out.ret = "err" THEN reqs (-) One(r)
                          ELSE Forget(reqs (-) One(r), k)
            IN  /\ cache' = out.store
                /\ CASE out.ret = "run" ->
                            /\ reqs' = others (+) One([r EXCEPT !.c = out.c])
                            /\ last' = last /\ hist' = hist
                     [] out.ret = "nil" -> reqs' = others /\ RevokeAllReturned(r, ErrNil, hist)
                     [] out.ret = "err" ->
                            reqs' = others /\ RevokeAllReturned(r, ErrCacheOperationFailed, hist)
        /\ UNCHANGED <<table, tasks, nextId>>

\* Service.RefreshTokens, up to the return of its ValidateToken; the ids of the
\* new pair are those uuid.New hands out later in the call.
RefreshTokensCall ==
    \E token \in hist.issued, fault \in BOOLEAN :
        LET valid == ValidateToken(cache, token, RefreshToken, fault)
            r == JwtCall("RefreshTokens", "blacklist", valid.claims.UserID, token,
                         TokenID(nextId + 1), TokenID(nextId + 2))
        IN  /\ nextId < 2 * MaxPairs /\ BagCardinality(reqs) < MaxJwtCalls /\ hist.calls < MaxJwtOps
            /\ IF valid.err # ErrNil
               THEN Return(JwtReturned(r, valid.err, <<>>)) /\ nextId' = nextId
               ELSE Enter(r) /\ nextId' = nextId + 2
            /\ hist' = Called
            /\ UNCHANGED <<table, cache, tasks>>

NextJwt ==
    \/ GenerateTokenPairCall \/ GenerateTokenPairStoreAccess \/ GenerateTokenPairStoreRefresh
    \/ ValidateTokenCall
    \/ RevokeTokenCall \/ RevokeTokenBlacklist \/ RevokeTokenUnlist
    \/ RevokeAllUserTokensCall \/ RevokeAllUserTokensScan \/ RevokeAllUserTokensDel
    \/ RefreshTokensCall

SpecJwt == InitJwt /\ [][NextJwt]_vars

---------------------------------------------------------------------------
(* The RateLimit middleware (transport/http/middleware) as concurrent       *)
(* requests within one window: SpecLimit.  A request reads the counter in   *)
(* one step and saves it in another; `hist.forwarded` counts, per client,   *)
(* the requests handed to the next handler.                                 *)

cacheKeyRateLimit == "limiter"

\* The clients: the address and the user agent getClientIP and getUA return.
Clients == {[ip |-> "10.0.0.1", ua |-> "curl"], [ip |-> "10.0.0.2", ua |-> "unknown"]}
LimitKey(client) == BuildCacheKey(cacheKeyRateLimit, client.ip \o ":" \o client.ua)

\* The counter a request computes from what cache.Get returned, or 0 when the
\* cache failed and the request is let through.
LimitCount(got) ==
    IF ~got.err.isNil
    THEN IF ErrorsIsCacheNil(got.err) THEN 1 ELSE 0
    ELSE got.dest.n + 1

InitLimit ==
    /\ table = {} /\ nextId = 0 /\ reqs = EmptyBag /\ tasks = EmptyBag
    /\ cache = EmptyMap
    /\ hist \in {[enable |-> e, started |-> 0, cacheFault |-> FALSE,
                   forwarded |-> [c \in Clients |-> 0]] : e \in BOOLEAN}
    /\ last = [op |-> ""]

\* next.ServeHTTP
Forward(h, client) == [h EXCEPT !.forwarded[client] = @ + 1]

\* RateLimit up to the comparison with the limit: the limiter is off, the cache
\* failed, the limit is exceeded, or the request goes on to save the counter.
RateLimitGet ==
    \E client \in Clients, fault \in BOOLEAN :
        LET got == CacheGet(cache, LimitKey(client), "int", fault)
            count == LimitCount(got)
            h == [hist EXCEPT !.started = @ + 1,
                              !.cacheFault = @ \/ (hist.enable /\ fault)]
            done(status, hh) ==
                /\ hist' = hh /\ reqs' = reqs
                /\ last' = [op |-> "RateLimit", client |-> client, status |-> status,
                            count |-> count, remaining |-> -1]
        IN  /\ hist.started < MaxCalls
            /\ IF ~hist.enable THEN done("next", Forward(h, client))
               ELSE IF count = 0 THEN done("next", Forward(h, client))
               ELSE IF count > MaxRequests THEN done("limit exceeded", h)
               ELSE /\ reqs' = reqs (+) One([op |-> "RateLimit", pc |-> "save",
                                             client |-> client, count |-> count])
                    /\ hist' = h /\ last' = last
            /\ UNCHANGED <<table, cache, tasks, nextId>>

\* RateLimit from cache.Save on: the request is forwarded whether or not the
\* save failed, with the rate-limit headers when it did not.
RateLimitSave ==
    \E r \in InFlight, fault \in BOOLEAN :
        LET res == CacheSave(cache, LimitKey(r.client), GoInt(r.count), fault)
            remaining == IF MaxRequests - r.count > 0 THEN MaxRequests - r.count ELSE 0
        IN  /\ r.op = "RateLimit" /\ r.pc = "save"
            /\ cache' = res.store
            /\ reqs' = reqs (-) One(r)
            /\ hist' = Forward([hist EXCEPT !.cacheFault = @ \/ fault], r.client)
            /\ last' = [op |-> "RateLimit", client |-> r.client, status |-> "next",
                        count |-> r.count,
                        remaining |-> IF res.err.isNil THEN remaining ELSE -1]
            /\ UNCHANGED <<table, tasks, nextId>>

NextLimit == RateLimitGet \/ RateLimitSave

SpecLimit == InitLimit /\ [][NextLimit]_vars

---------------------------------------------------------------------------
(* Properties of the repository (SpecRepo).                                 *)

\* The call in `last` passed a filter that compiles to the empty string.
CompilesEmpty(filter) ==
    LET w == BuildWhereClause(filter) IN w.where = "" /\ ~w.panic

\* C4: Exist, Delete and DeleteTx called with a FilterGroup that compiles to the
\* empty string return the required-filter error, run no statement on any
\* handle, and leave the table as it was.
C4_RequiredFilter ==
    (last.op \in {"Exist", "Delete", "DeleteTx"} /\ CompilesEmpty(last.filter))
        => /\ last.err = ErrRequiredFilter
           /\ last.handle = "none"
           /\ table = last.before

\* A Delete with a filter that compiles to the empty string has returned while
\* the table holds rows.
C4_Witness ==
    /\ last.op = "Delete" /\ CompilesEmpty(last.filter)
    /\ last.err = ErrRequiredFilter /\ table # {}

\* The rows of `tbl` the filter of the call selects.
Matching(tbl, filter) == Selected(tbl, filter, BuildWhereClause(filter))

\* C5: a repository Get whose filter matches no row returns the zero entity and
\* a nil error; a non-nil error comes only from a failed prepare or a failed
\* execution, and a Get that matches rows returns one of them.
C5_GetAbsent ==
    last.op = "Get" =>
        LET w == BuildWhereClause(last.filter)
            rejected == Rejected(last.filter, w)
        IN  /\ (~rejected /\ ~last.fault /\ Matching(last.before, last.filter) = {})
                    => (last.err = ErrNil /\ last.val = ZeroUser)
            /\ (last.err # ErrNil) => (rejected \/ last.fault)
            /\ (last.err = ErrNil /\ Matching(last.before, last.filter) # {})
                    => last.val \in Matching(last.before, last.filter)

\* A Get by an id no row has returned on a table that holds rows.
C5_Witness ==
    /\ last.op = "Get" /\ ~last.fault /\ last.before # {}
    /\ last.where # "" /\ Matching(last.before, last.filter) = {}
    /\ last.err = ErrNil /\ last.val = ZeroUser

\* Row `r` with the columns of `mod` set.
WithFields(r, mod) ==
    [c \in Columns |-> IF c \in DOMAIN mod THEN ArgText(mod[c]) ELSE r[c]]

\* C14: Update and UpdateTx do not reject a filter that compiles to an empty
\* clause: the UPDATE goes to the handle without a WHERE clause and, when the
\* database accepts it (it is up, the statement names a column, and no two
\* rows end with one value of a unique column), every row of the table has the
\* given fields set and the call returns nil.
C14_UpdateEveryRow ==
    (last.op \in {"Update", "UpdateTx"} /\ CompilesEmpty(last.filter))
        => /\ last.err # ErrRequiredFilter
           /\ last.handle = (IF last.op = "Update" THEN "write" ELSE "tx")
           /\ last.where = ""
           /\ (~last.fault /\ DOMAIN last.mod # {}
                    /\ UniqueKeys({WithFields(r, last.mod) : r \in last.before})
                    /\ Cardinality({WithFields(r, last.mod) : r \in last.before})
                            = Cardinality(last.before))
                 => /\ last.err = ErrNil
                    /\ table = {WithFields(r, last.mod) : r \in last.before}

\* An Update with an empty filter group has returned nil on a table of two rows,
\* and both rows carry the new level.
C14_Witness ==
    /\ last.op = "Update" /\ last.filter = MkGroup(<<>>, FilterGroupOperatorAnd)
    /\ last.err = ErrNil /\ Cardinality(last.before) = 2
    /\ last.mod = MapOf(FieldLevel, GoStr("2"))
    /\ table # last.before
    /\ \A r \in table : r[FieldLevel] = "2"

\* C26: an Update or UpdateTx that returns nil has modified exactly the rows that
\* satisfy the filter evaluated with the filter's own values, also when a key of
\* the fields equals an argument name of the filter: every matching row has the
\* fields set, every other row is as it was.
C26_UpdateFilterValues ==
    (last.op \in {"Update", "UpdateTx"} /\ last.err = ErrNil)
        => table = (last.before \ Matching(last.before, last.filter))
                       \cup {WithFields(r, last.mod) : r \in Matching(last.before, last.filter)}

RECURSIVE NoPredicate(_)
\* The filter tree contributes no predicate: every Filter in it compiles to an
\* empty fragment, and every other element is a group of such or is skipped.
NoPredicate(x) ==
    IF x.kind = "filter" THEN FilterWhere(x).where = "" /\ ~FilterWhere(x).panic
    ELSE IF x.kind = "group"
    THEN \A i \in 1..Len(x.Filters) : NoPredicate(x.Filters[i])
    ELSE TRUE

\* C27: Exist, Delete and DeleteTx called with a filter tree that contributes no
\* predicate (only empty groups, unknown-operator filters or other empty
\* fragments) return the required-filter error and hand no statement to any
\* handle.
C27_GuardNotBypassed ==
    (last.op \in {"Exist", "Delete", "DeleteTx"} /\ NoPredicate(last.filter))
        => /\ last.err = ErrRequiredFilter
           /\ last.handle = "none"

\* The rows a listing returns when `skip` rows are passed over and at most
\* `take` rows are kept out of `n`.
Window(n, skip, take) ==
    IF n - skip <= 0 THEN 0 ELSE IF n - skip > take THEN take ELSE n - skip

\* C19: GetAll emits LIMIT and OFFSET, bound to limit and (page-1)*limit,
\* exactly when page > 0 and limit > 0; LIMIT only when page <= 0 and limit > 0;
\* neither when limit <= 0.  The rows returned are the window the statement asks
\* for.
C19_Pagination ==
    last.op = "GetAll" =>
        LET page == last.params.Page
            limit == last.params.Limit
            text == last.query.text
            args == last.query.args
            n == Cardinality(Matching(last.before, last.filter))
            hasLimit == Contains(text, "LIMIT :limit")
            hasOffset == Contains(text, "OFFSET :offset")
        IN  /\ (page > 0 /\ limit > 0) =>
                    /\ hasLimit /\ hasOffset
                    /\ DOMAIN args \cap {"limit", "offset"} = {"limit", "offset"}
                    /\ args["limit"] = GoInt(limit)
                    /\ args["offset"] = GoInt((page - 1) * limit)
                    /\ last.err = ErrNil => Len(last.val) = Window(n, (page - 1) * limit, limit)
            /\ (page <= 0 /\ limit > 0) =>
                    /\ hasLimit /\ ~hasOffset
                    /\ DOMAIN args \cap {"limit", "offset"} = {"limit"}
                    /\ args["limit"] = GoInt(limit)
                    /\ last.err = ErrNil => Len(last.val) = Window(n, 0, limit)
            /\ limit <= 0 =>
                    /\ ~hasLimit /\ ~hasOffset
                    /\ DOMAIN args \cap {"limit", "offset"} = {}
                    /\ last.err = ErrNil => Len(last.val) = n

\* A GetAll of page 2 with limit 1 over two rows has returned the second row
\* only, and a GetAll of page 0 would carry no OFFSET.
C19_Witness ==
    /\ last.op = "GetAll" /\ last.err = ErrNil
    /\ last.params.Page = 2 /\ last.params.Limit = 1 /\ last.params.SortBy = FieldID
    /\ Cardinality(last.before) = 2 /\ last.filter = MkGroup(<<>>, FilterGroupOperatorAnd)
    /\ Contains(last.query.text, "LIMIT :limit OFFSET :offset")
    /\ last.query.args["offset"] = GoInt(1)
    /\ Len(last.val) = 1 /\ last.val[1][FieldID] = "1"

\* C22: InsertBulk and InsertBulkTx called with an empty slice return nil and
\* are a no-op: no statement goes to the database and no row is added.
C22_EmptyBulkNoOp ==
    (last.op \in {"InsertBulk", "InsertBulkTx"} /\ Len(last.models) = 0)
        => /\ last.err = ErrNil
           /\ last.handle = "none"
           /\ table = last.before

\* C23: Get, GetAll, Exist and Count run only on the read handle; Insert,
\* InsertBulk, Update and Delete only on the write handle; every ...Tx variant
\* only on the transaction it was given.
C23_ConnectionDiscipline ==
    /\ last.op \in {"Get", "GetAll", "Exist", "Count"} => last.handle \in {"none", "read"}
    /\ last.op \in {"Insert", "InsertBulk", "Update", "Delete"}
            => last.handle \in {"none", "write"}
    /\ last.op \in {"InsertTx", "InsertBulkTx", "UpdateTx", "DeleteTx"}
            => last.handle \in {"none", "tx"}
    /\ last.op \in {"Get", "GetAll", "Exist", "Count"} => table = last.before

\* A DeleteTx has removed a row on the transaction it was given.
C23_Witness ==
    /\ last.op = "DeleteTx" /\ last.err = ErrNil /\ last.handle = "tx"
    /\ table # last.before

---------------------------------------------------------------------------
(* Properties of the cache wrapper (SpecCache).                             *)

\* C9: after Save(k, v) succeeded, a Get of k into a destination of v's type,
\* with the store reachable, returns a nil error and leaves v in the
\* destination; this covers JSON values and plain strings stored raw.
C9_RoundTrip ==
    (/\ last.op = "Get" /\ ~last.fault
     /\ last.key \in DOMAIN hist.saved
     /\ hist.saved[last.key].t = last.destT)
        => (last.err.isNil /\ last.dest = hist.saved[last.key])

\* C10: the error of Get matches cache.Nil exactly when the store answered that
\* the key is absent: never for a present key, never for a deserialization or
\* a connectivity error.
C10_NilIffAbsent ==
    last.op = "Get" =>
        /\ ErrorsIsCacheNil(last.err) <=> (~last.present /\ ~last.fault)
        /\ last.present => ~ErrorsIsCacheNil(last.err)
        /\ last.err.unwrap \in {JsonSyntax, RedisDown} => ~ErrorsIsCacheNil(last.err)

\* A Get of a present key failed to deserialize, and its error is not cache.Nil.
C10_Witness ==
    /\ last.op = "Get" /\ last.present /\ ~last.fault
    /\ last.err.unwrap = JsonSyntax /\ ~ErrorsIsCacheNil(last.err)

\* C11: whenever Clear(prefix) returns nil, every key that matched the pattern
\* when the call started is gone from the store; a failed scan or a failed
\* delete makes the call return a non-nil error.
C11_ClearComplete ==
    last.op = "Clear" =>
        /\ last.err.isNil => \A k \in last.matched : k \notin DOMAIN cache
        /\ last.failed => ~last.err.isNil

---------------------------------------------------------------------------
(* Properties of the filter DSL (SpecFilter).                               *)

\* C15: compiling a filter never fails: for every Filter and FilterGroup, with
\* any operator and any Value, GetWhereClause returns a (fragment, args) pair
\* without panicking.
C15_CompileNeverPanics ==
    last.op \in {"Filter.GetWhereClause", "FilterGroup.GetWhereClause"} => ~last.panic

\* Group `g` without its i-th element.
WithoutChild(g, i) ==
    MkGroup(SubSeq(g.Filters, 1, i - 1) \o SubSeq(g.Filters, i + 1, Len(g.Filters)),
            g.Operator)

\* Element `x` of a group is a Filter whose operator the DSL does not know.
UnknownOperator(x) == x.kind = "filter" /\ x.Operator \notin KnownOperators

\* C16: a Filter with an unknown operator compiles to an empty fragment with no
\* arguments, and a FilterGroup that contains it compiles to the same clause and
\* arguments as the same group without it.
C16_UnknownOperatorNoOp ==
    /\ (last.op = "Filter.GetWhereClause" /\ UnknownOperator(last.node))
            => (last.where = "" /\ last.args = EmptyMap /\ ~last.panic)
    /\ last.op = "FilterGroup.GetWhereClause" =>
            \A i \in 1..Len(last.node.Filters) :
                UnknownOperator(last.node.Filters[i]) =>
                    [where |-> last.where, args |-> last.args, panic |-> last.panic]
                        = GroupWhere(WithoutChild(last.node, i))

\* The children of a group: its elements that are Filters or FilterGroups.
Children(g) == SelectSeq(g.Filters, LAMBDA x : x.kind \in {"filter", "group"})

RECURSIVE RefPanics(_)
\* Compiling the node panics: compiling one of its filters does.
RefPanics(x) ==
    IF x.kind = "filter" THEN FilterWhere(x).panic
    ELSE \E i \in 1..Len(Children(x)) : RefPanics(Children(x)[i])

RECURSIVE RefText(_)
RECURSIVE RefJoin(_, _)
\* The reference text of a node: a filter's fragment; for a group, "" without
\* children, else the children's texts joined by the operator in parentheses.
RefText(x) ==
    IF x.kind = "filter" THEN FilterWhere(x).where
    ELSE IF Len(Children(x)) = 0 THEN ""
    ELSE "(" \o RefJoin(Children(x), x.Operator) \o ")"
RefJoin(cs, op) ==
    IF Len(cs) = 1 THEN RefText(cs[1])
    ELSE RefText(cs[1]) \o " " \o op \o " " \o RefJoin(Tail(cs), op)

RECURSIVE RefArgs(_)
\* The reference arguments of a node: the union of the children's arguments; a
\* name bound by several children keeps the value of the last of them.
RefArgs(x) ==
    IF x.kind = "filter" THEN FilterWhere(x).args
    ELSE LET cs == Children(x)
             of(i) == RefArgs(cs[i])
             binder(k) == CHOOSE i \in 1..Len(cs) :
                             /\ k \in DOMAIN of(i)
                             /\ \A j \in (i + 1)..Len(cs) : k \notin DOMAIN of(j)
         IN  [k \in UNION {DOMAIN of(i) : i \in 1..Len(cs)} |-> of(binder(k))[k]]

\* C17: FilterGroup compilation equals the recursive reference: no children
\* give "" and no arguments; otherwise "(" + the children's fragments in list
\* order joined by the group's operator + ")" with the union of the children's
\* arguments, at every nesting depth.
C17_GroupIsReference ==
    last.op = "FilterGroup.GetWhereClause" =>
        IF RefPanics(last.node) THEN last.panic
        ELSE /\ ~last.panic
             /\ last.where = RefText(last.node)
             /\ last.args = RefArgs(last.node)
             /\ Len(Children(last.node)) = 0 => (last.where = "" /\ last.args = EmptyMap)

\* OR over two AND groups has compiled to (A AND B) OR (C AND D) in parentheses,
\* with the four arguments.
C17_Witness ==
    /\ last.op = "FilterGroup.GetWhereClause"
    /\ last.node = MkGroup(<<MkGroup(<<FilterA, FilterC>>, FilterGroupOperatorAnd),
                             MkGroup(<<FilterB, FilterD>>, FilterGroupOperatorAnd)>>,
                           FilterGroupOperatorOr)
    /\ last.where = "((id = :id AND level = :level) OR (email = :email AND modified_by != :modified_by))"
    /\ DOMAIN last.args = {FieldID, FieldLevel, FieldEmail, FieldModifiedBy}

RECURSIVE CountChar(_, _)
\* How many times the character `c` occurs in `str`.
CountChar(str, c) ==
    IF Len(str) = 0 THEN 0
    ELSE (IF SubSeq(str, 1, 1) = c THEN 1 ELSE 0) + CountChar(SubSeq(str, 2, Len(str)), c)

\* C18: a Filter with operator `in` over a slice of length N compiles to exactly
\* N named placeholders <argName>_0 .. <argName>_{N-1} in the IN list and exactly
\* N argument entries, entry i bound to element i.
C18_InPlaceholders ==
    (/\ last.op = "Filter.GetWhereClause"
     /\ last.node.Operator = FilterOperatorIn /\ last.node.Value.t = "slice")
        => LET n == Len(last.node.Value.e)
               name(i) == FilterArgName(last.node) \o "_" \o ToString(i)
           IN  /\ ~last.panic
               /\ CountChar(last.where, ":") = n
               /\ last.where = FilterColumn(last.node) \o " IN ("
                                  \o JoinStr([i \in 1..n |-> ":" \o name(i - 1)], ", ")
                                  \o ") "
               /\ DOMAIN last.args = {name(i) : i \in 0..(n - 1)}
               /\ Cardinality(DOMAIN last.args) = n
               /\ \A i \in 0..(n - 1) : last.args[name(i)] = last.node.Value.e[i + 1]

\* An `in` over the longest slice has compiled to that many placeholders.
C18_Witness ==
    /\ last.op = "Filter.GetWhereClause"
    /\ last.node = MkFilter("a", FieldID, SliceOf(MaxLen), FilterOperatorIn, TableName)
    /\ CountChar(last.where, ":") = MaxLen
    /\ Cardinality(DOMAIN last.args) = MaxLen
    /\ last.args["a_0"] = GoStr("1")

\* The value a numeric field takes from its own parameter: the number when it is
\* a positive integer, else the prior value; the default when still unset.
OwnNumber(text, prior, defaultRequest, default) ==
    LET n == Atoi(text)
        read == IF ~n.err /\ n.n > 0 THEN n.n ELSE prior
    IN  IF defaultRequest /\ read = 0 THEN default ELSE read

\* The value a text field takes from its own parameter.
OwnText(text, valid, prior, defaultRequest, default) ==
    LET read == IF valid THEN text ELSE prior
    IN  IF defaultRequest /\ read = "" THEN default ELSE read

\* C24: FromRequest sets each of Page, Limit, SortBy and SortDir only from its
\* own request parameter (page, limit, sort_by, sort_dir); a field whose
\* parameter is absent or invalid keeps its prior value, or gets the default
\* 1 / 10 / created_at / DESC when defaults are asked for and it is still unset;
\* SortDir takes only ASC or DESC from the request.
C24_OwnParameter ==
    last.op = "FromRequest" =>
        LET d == last.defaultRequest
            dir == last.query["sort_dir"]
        IN  /\ last.res.Page = OwnNumber(last.query["page"], last.q.Page, d, 1)
            /\ last.res.Limit = OwnNumber(last.query["limit"], last.q.Limit, d, 10)
            /\ last.res.SortBy = OwnText(last.query["sort_by"], last.query["sort_by"] # "",
                                         last.q.SortBy, d, "created_at")
            /\ last.res.SortDir = OwnText(dir, dir \in {"ASC", "DESC"},
                                          last.q.SortDir, d, "DESC")

---------------------------------------------------------------------------
(* Properties of the column mapper (SpecColumns).                           *)

\* No element occurs twice in the sequence.
NoRepeat(seq) == \A i, j \in 1..Len(seq) : i # j => seq[i] # seq[j]

\* C21: for every entity struct type the insert columns are a subset of the
\* names in columns, and no name occurs twice in columns or in the insert
\* columns.
C21_ColumnsUnique ==
    last.op = "getColumns" =>
        LET names == [i \in 1..Len(last.columns) |-> last.columns[i].name]
        IN  /\ {last.insert[i] : i \in 1..Len(last.insert)}
                    \subseteq {names[i] : i \in 1..Len(names)}
            /\ NoRepeat(names)
            /\ NoRepeat(last.insert)

---------------------------------------------------------------------------
(* Properties of the shared helpers (SpecShared).                           *)

\* The two queries of the call in `last` are the same query.
SameQuery == last.params1 = last.params2 /\ last.filter1 = last.filter2

\* C12 as stated: two listing queries under one namespace get the same key if
\* and only if their (QueryParams, FilterGroup) pairs are identical.
C12_KeyIffIdentical ==
    last.op = "BuildCacheKeyWithQuery" => (last.key1 = last.key2 <=> SameQuery)

\* C12: identical pairs always get the same key, and two pairs that can both be
\* serialized get the same key only if they are identical; pairs that cannot be
\* serialized are told apart by their QueryParams alone.
C12_KeyIffIdenticalSerializable ==
    last.op = "BuildCacheKeyWithQuery" =>
        /\ SameQuery => last.key1 = last.key2
        /\ (FilterMarshalable(last.filter1) /\ FilterMarshalable(last.filter2))
                => (last.key1 = last.key2 => SameQuery)
        /\ (~FilterMarshalable(last.filter1) /\ ~FilterMarshalable(last.filter2))
                => (last.key1 = last.key2 <=> last.params1 = last.params2)

\* Two serializable queries that differ in one filter value only got two keys.
C12_Witness ==
    /\ last.op = "BuildCacheKeyWithQuery"
    /\ last.params1 = last.params2
    /\ last.filter1 = EmailFilter("a@x") /\ last.filter2 = EmailFilter("b@x")
    /\ last.key1 # last.key2

\* C13: when the pair cannot be serialized the key is
\* appName:cache:<namespace>:page_<page>_limit_<limit>_sortBy_<sortBy>_sortDir_<sortDir>,
\* built from the literal QueryParams values only.
C13_FallbackKey ==
    (last.op = "BuildCacheKeyWithQuery" /\ ~FilterMarshalable(last.filter1))
        => last.key1 = AppName \o ":cache:" \o last.key
                          \o ":page_" \o ToString(last.params1.Page)
                          \o "_limit_" \o ToString(last.params1.Limit)
                          \o "_sortBy_" \o last.params1.SortBy
                          \o "_sortDir_" \o last.params1.SortDir

\* A query whose filter holds a channel got the fallback key of page 1, limit 10.
C13_Witness ==
    /\ last.op = "BuildCacheKeyWithQuery"
    /\ last.filter1 = MkGroup(<<MkFilter("", FieldEmail, GoChan, FilterOperatorEq, "")>>, "")
    /\ last.params1 = MkParams(1, DefaultValueLimit, FieldID, "ASC")
    /\ last.key1 = "oil:cache:user:gets:page_1_limit_10_sortBy_id_sortDir_ASC"

\* ceil(total / limit) for a positive limit: the least c with c * limit >= total.
Ceil(total, limit) ==
    CHOOSE c \in (-MaxTotal)..MaxTotal :
        c * limit >= total /\ (c - 1) * limit < total

\* C20: CalculateTotalPage(total, limit) returns 1 when total = 0 or limit <= 0
\* and ceil(total / limit) otherwise, and its result is at least 1 for every
\* pair of integers.
C20_TotalPageAtLeastOne ==
    last.op = "CalculateTotalPage" =>
        /\ (last.total = 0 \/ last.limit <= 0) => last.res = 1
        /\ (last.total # 0 /\ last.limit > 0) => last.res = Ceil(last.total, last.limit)
        /\ last.res >= 1

---------------------------------------------------------------------------
(* Properties of the services (Spec).                                       *)

\* A request returned in this step.
Returned ==
    \/ last' # last
    \/ BagCardinality(reqs') < BagCardinality(reqs)
    \/ hist'.started > hist.started /\ reqs' = reqs

\* This step handed the invalidation of a mutation to a goroutine.
NewInvalidation(op, id) == tasks' = tasks (+) One(InvalTask(op, id))

\* The ids in a listing.
UserIds(val) == {val.users[i].id : i \in 1..Len(val.users)}

\* C1: once a successful Delete(id) has returned, the next GetAll
\* misses the cache and returns a listing without the entity, and the next
\* Get(id) does not return the entity.
C1_DeleteVisible ==
    /\ (last.op = "GetAll" /\ last.target # "")
            => (~last.hit /\ (last.err = ErrNil => last.target \notin UserIds(last.val)))
    /\ (last.op = "Get" /\ last.target # "" /\ last.id = last.target)
            => (~last.hit /\ last.err # ErrNil)

\* What the database returns for the key of a cache entry.
Consistent(k) ==
    /\ \A id \in Ids : k = BuildCacheKey(cacheGetUser, id) =>
            \E r \in table : r[FieldID] = id /\ cache[k] = JsonMarshal(UserResponseFromModel(r))
    /\ \A q \in QueryIds : k = CountKey(q) =>
            cache[k] = JsonMarshal(GoInt(RepoCount(table, Queries[q].filter, FALSE).val))
    /\ \A q \in QueryIds : k = ListKey(q) =>
            \E res \in RepoGetAll(table, Queries[q].params, Queries[q].filter, FALSE) :
                cache[k] = JsonMarshal(GetUsersResponseFromModels(
                                res.val, RepoCount(table, Queries[q].filter, FALSE).val,
                                Queries[q].params.Limit))

\* C2: with only reads and mutations of the user service, no failed cache
\* command and no expiry, once every request and every goroutine has finished
\* each cache entry equals what the database returns for its key.
C2_EventuallyConsistent ==
    (Quiescent /\ ~hist.cacheFault /\ hist.expired = 0 /\ ~hist.authWrote)
        => \A k \in DOMAIN cache : Consistent(k)

\* C3: every step that changes the table hands an invalidation to a goroutine.
C3_WritesInvalidate ==
    [][table' # table =>
        \E op \in Mutations, id \in Ids \cup {""} : NewInvalidation(op, id)]_vars

\* C6: a Create, Update or Delete whose write succeeded returns success with the
\* invalidation still pending and the cache untouched; a failure the
\* invalidation logs changes no request and no result, and after a failed
\* Clear of the listings the goroutine goes on to the totals.
C6_WriteSucceeds ==
    [][/\ (Returned /\ last'.op \in Mutations /\ last'.wrote)
            => (/\ last'.err = ErrNil
                /\ cache' = cache
                /\ NewInvalidation(last'.op, last'.id))
       /\ (hist'.log # hist.log)
            => (/\ last' = last /\ reqs' = reqs /\ table' = table
                /\ (LogClearFailed(cacheGetAllUser) \in hist'.log \ hist.log)
                        => \E t \in BagToSet(tasks') : t.pc = "scan2" /\ t.fault)]_vars

\* An Update returned success and its invalidation then failed to clear the
\* listings.
C6_Witness ==
    /\ last.op = "Update" /\ last.wrote /\ last.err = ErrNil
    /\ LogClearFailed(cacheGetAllUser) \in hist.log

\* C7: a Create, Update or Delete whose write failed or was not attempted
\* returns an error, starts no goroutine, and leaves the cache and the table as
\* they were.
C7_FailedWriteFrame ==
    [][(Returned /\ last'.op \in Mutations /\ ~last'.wrote)
            => (/\ last'.err # ErrNil
                /\ tasks' = tasks
                /\ cache' = cache
                /\ table' = table)]_vars

\* A Delete whose statement failed has returned; the cache holds entries and no
\* goroutine is pending.
C7_Witness ==
    /\ last.op = "Delete" /\ ~last.wrote /\ last.repo = 2 /\ last.err # ErrNil
    /\ cache # EmptyMap /\ tasks = EmptyBag

\* The key and the errors of a read.
ReadKey(l) ==
    CASE l.op = "Get" -> BuildCacheKey(cacheGetUser, l.id)
      [] l.op = "GetAll" -> ListKey(l.q)
      [] l.op = "Count" -> CountKey(l.q)
ReadErrors ==
    {ErrNotFound}
        \cup {Wrap(m, e) : m \in {"failed to get user", "failed to get users",
                                  "failed to count users"},
                           e \in {ErrPrepare, ErrExec}}
        \cup {Wrap("failed to count users", Wrap("failed to count users", e)) :
                e \in {ErrPrepare, ErrExec}}

\* What a read that went to the database returned is what the table holds.
FromDatabase(l) ==
    CASE l.op = "Get" ->
            \E r \in table : r[FieldID] = l.id /\ l.val = UserResponseFromModel(r)
      [] l.op = "Count" ->
            l.val = GoInt(RepoCount(table, Queries[l.q].filter, FALSE).val)
      [] l.op = "GetAll" ->
            \E res \in RepoGetAll(table, Queries[l.q].params, Queries[l.q].filter, FALSE) :
                l.val.users = [i \in 1..Len(res.val) |-> UserResponseFromModel(res.val[i])]

\* C8: a Get, GetAll or Count calls the repository exactly when cache.Get
\* returned an error; a hit returns the cached value; after any cache.Get error
\* the read returns what the database holds, and fails only on a database
\* error or an absent entity.
C8_CacheAside ==
    [][(Returned /\ last'.op \in Reads) =>
        /\ last'.hit <=> last'.got.err.isNil
        /\ (last'.repo > 0) <=> ~last'.got.err.isNil
        /\ last'.hit =>
            /\ last'.err = ErrNil
            /\ ReadKey(last') \in DOMAIN cache
            /\ JsonMarshal(last'.val) = cache[ReadKey(last')]
        /\ ~last'.hit =>
            /\ last'.err = ErrNil => FromDatabase(last')
            /\ last'.err # ErrNil => last'.err \in ReadErrors]_vars

\* A Get whose cache lookup failed on the connection returned the row of the
\* database.
C8_Witness ==
    /\ last.op = "Get" /\ last.got.err.unwrap = RedisDown
    /\ last.repo > 0 /\ last.err = ErrNil /\ last.val.id = last.id

\* A Get that read the database leaves in this step, and the table holds no row
\* of its id.
GetFindsNoRow(r) ==
    /\ r \in InFlight /\ r.op = "Get" /\ r.pc = "db"
    /\ reqs' = reqs (-) One(r)
    /\ ~\E row \in table : row[FieldID] = r.id

\* C25: a Get(id) whose database read finds no row returns an error (not found,
\* unless the read itself failed) and schedules no cache Save: the step neither
\* adds a task nor changes the cache.
C25_AbsenceNotCached ==
    [][\A r \in InFlight : GetFindsNoRow(r) =>
        /\ last'.op = "Get" /\ last'.id = r.id
        /\ last'.err \in {ErrNotFound} \cup {Wrap("failed to get user", e) : e \in {ErrPrepare, ErrExec}}
        /\ tasks' = tasks
        /\ cache' = cache]_vars

\* A Get read the database, found no row and returned not-found; no Save of its
\* key is pending and the cache holds no entry for it.
C25_Witness ==
    /\ last.op = "Get" /\ last.repo = 1 /\ last.err = ErrNotFound
    /\ ~\E row \in table : row[FieldID] = last.id
    /\ ~\E t \in Pending : t.kind = "save" /\ t.key = BuildCacheKey(cacheGetUser, last.id)
    /\ BuildCacheKey(cacheGetUser, last.id) \notin DOMAIN cache

\* An Update of r's id returns nil in this step.
UpdateSucceeds(r) ==
    /\ r \in InFlight /\ r.op = "Update" /\ r.pc = "write"
    /\ reqs' = reqs (-) One(r)
    /\ last'.op = "Update" /\ last'.id = r.id /\ last'.err = ErrNil

\* C28: an Update(id) returns nil only if its UPDATE statement modified a row of
\* that id: when a Delete(id) has committed since the existence check, the
\* Update returns an error.
C28_UpdateModifiedRow ==
    [][\A r \in InFlight : UpdateSucceeds(r) =>
        /\ \E row \in table : row[FieldID] = r.id
        /\ \E row \in table' : row[FieldID] = r.id /\ row[FieldModifiedBy] = r.actor]_vars

---------------------------------------------------------------------------
(* Properties of the JWT service (SpecJwt).                                 *)

\* C29: once RevokeAllUserTokens(userID) has returned nil, ValidateToken rejects
\* every access and refresh token issued to that user before the call.
C29_RevokeAllRejects ==
    (last.op = "ValidateToken" /\ last.token \in hist.cut) => last.err # ErrNil

---------------------------------------------------------------------------
(* Properties of the RateLimit middleware (SpecLimit).                      *)

\* C30: with the limiter on, within one window and with no cache error, at most
\* MaxRequests requests of one client are forwarded to the next handler, however
\* the requests of that client interleave.
C30_AtMostMaxRequests ==
    (hist.enable /\ ~hist.cacheFault) =>
        \A client \in Clients : hist.forwarded[client] <= MaxRequests

=============================================================================
